---------------------------- MODULE Spec2Model ----------------------------
(***************************************************************************)
(* A model of three pieces of the ART compiler:                            *)
(*   - LiveRange / UsePosition / LiveInterval                              *)
(*       (compiler/optimizing/ssa_liveness_analysis.h)                     *)
(*   - the A64 immediate encoders and the floating-point constant loads    *)
(*       (compiler/dex/quick/arm64/utility_arm64.cc)                       *)
(*   - HGraphBuilder (compiler/optimizing/builder.cc)                      *)
(* Arena objects are cells of a heap (a sequence; a pointer is an index,   *)
(* 0 is nullptr), so that aliasing between first_range_, last_range_ and   *)
(* the next_ links is the aliasing of the code.                            *)
(***************************************************************************)
EXTENDS Integers, Sequences, FiniteSets, TLC

VARIABLES
    ranges,      \* arena of LiveRange cells
    uses,        \* arena of UsePosition cells
    intervals,   \* arena of LiveInterval objects
    pass,        \* per interval: where the backward liveness pass stands
    ret,         \* the last call: its name, arguments and returned value
    input,       \* the arguments drawn for the call of a pure encoder
    insns,       \* the LIR instructions appended to the method so far
    data,        \* arena of the LIR data nodes of the literal pool
    literal_list_,  \* head of the literal pool's list (a pointer into data)
    reg_pool_,   \* the core temporaries: their width and those in use
    builder      \* the fields of HGraphBuilder, the arena it allocates in, and
                 \* where BuildGraph is in its loop

livars == <<ranges, uses, intervals, pass, ret>>
encvars == <<input, insns, data, literal_list_, reg_pool_, builder>>
vars == <<ranges, uses, intervals, pass, ret, input, insns, data, literal_list_, reg_pool_,
          builder>>

nullptr == 0
kNoRegister == -1
kNoLifetime == -1
\* the value the model gives a call that ends in LOG(FATAL)
FatalResult == -2

(***************************************************************************)
(* Bounds of the model.                                                    *)
(***************************************************************************)
NumBlocks == 4       \* blocks of the linearized graph
BlockLen == 2        \* lifetime positions per block
MaxUses == 2         \* UsePosition cells allocated
MaxSplits == 2       \* SplitAt calls that return a sibling
NumRegs == 1         \* registers SetRegister may assign (0..NumRegs-1)

Blocks == 1..NumBlocks

\* Lifetime numbering of the linearized blocks: block b spans
\* [GetLifetimeStart(b), GetLifetimeEnd(b)), blocks are contiguous.
GetLifetimeStart(b) == (b - 1) * BlockLen
GetLifetimeEnd(b) == b * BlockLen
MaxPos == NumBlocks * BlockLen
Positions == 0..MaxPos
\* Non-phi instructions of block b have positions strictly inside the block.
InstrPositions(b) == (GetLifetimeStart(b) + 1)..(GetLifetimeEnd(b) - 1)

(***************************************************************************)
(* LiveRange, UsePosition, LiveInterval constructors.                      *)
(***************************************************************************)
LiveRange(start, end, next) == [start_ |-> start, end_ |-> end, next_ |-> next]

\* env is user_->NeedsEnvironment(), phi is user_->AsPhi() != nullptr.
UsePosition(env, phi, position, next) ==
    [env |-> env, phi |-> phi, position_ |-> position, next_ |-> next]

LiveInterval ==
    [first_range_ |-> nullptr, last_range_ |-> nullptr, first_use_ |-> nullptr,
     next_sibling_ |-> nullptr, register_ |-> kNoRegister]

\* The chain of cells reached from pointer r in arena rs, as a sequence of
\* cell indices.
RECURSIVE Chain(_, _)
Chain(rs, r) == IF r = nullptr THEN <<>> ELSE <<r>> \o Chain(rs, rs[r].next_)

NoCall == [op |-> "none", self |-> 0, arg |-> 0, val |-> 0]
NoInput == [op |-> "none"]
\* No temporary is in use.
NoTemps == [is_64bit |-> FALSE, in_use |-> {}]
\* No graph is being built.
NoBuilder == [pc |-> "none"]
Call(op, self, arg, val) == [op |-> op, self |-> self, arg |-> arg, val |-> val]

\* The pass visits blocks from last to first; in a block: phi uses of the
\* successors (stage 0), the live-in range (stage 0), the instructions
\* backwards (stage <= 1), the loop range (then stage 2).
PassStart ==
    [blk |-> NumBlocks, stage |-> 0, pos |-> GetLifetimeEnd(NumBlocks), done |-> FALSE]

\* The values whose intervals the liveness pass builds; siblings made by
\* SplitAt are the further elements of intervals.
Values == DOMAIN pass

LiveInit(n) ==
    /\ ranges = <<>>
    /\ uses = <<>>
    /\ intervals = [i \in 1..n |-> LiveInterval]
    /\ pass = [i \in 1..n |-> PassStart]
    /\ ret = NoCall
    /\ input = NoInput
    /\ insns = <<>>
    /\ data = <<>>
    /\ literal_list_ = nullptr
    /\ reg_pool_ = NoTemps
    /\ builder = NoBuilder

\* The new contents of the arenas a method leaves.
Heap(rs, ivs) == [ranges |-> rs, intervals |-> ivs]

(***************************************************************************)
(* LiveInterval::AddUse: the range part (the use is prepended by the       *)
(* action).  new_use is the UsePosition cell the call allocates.           *)
(***************************************************************************)
\* AddUse that creates a range for every use
LI_AddUse_AlwaysNew(i, position, start_block_position, end_block_position, new_use) ==
    LET iv == intervals[i]
        new == Len(ranges) + 1
    IN  Heap(Append(ranges, LiveRange(start_block_position, position, iv.first_range_)),
             [intervals EXCEPT ![i].first_range_ = new,
                               ![i].last_range_ = IF iv.first_range_ = nullptr THEN new ELSE @,
                               ![i].first_use_ = new_use])

LI_AddUse(i, position, start_block_position, end_block_position, new_use) ==
    LET iv == intervals[i]
        new == Len(ranges) + 1
    IN  IF iv.first_range_ = nullptr
        THEN \* First time we see a use of that interval.
             Heap(Append(ranges, LiveRange(start_block_position, position, nullptr)),
                  [intervals EXCEPT ![i].first_range_ = new, ![i].last_range_ = new,
                                    ![i].first_use_ = new_use])
        ELSE IF ranges[iv.first_range_].start_ = start_block_position
        THEN \* There is a use later in the same block.
             Heap(ranges, [intervals EXCEPT ![i].first_use_ = new_use])
        ELSE IF ranges[iv.first_range_].start_ = end_block_position
        THEN \* Last use is in the following block.
             Heap([ranges EXCEPT ![iv.first_range_].start_ = start_block_position],
                  [intervals EXCEPT ![i].first_use_ = new_use])
        ELSE \* There is a hole in the interval. Create a new range.
             Heap(Append(ranges, LiveRange(start_block_position, position, iv.first_range_)),
                  [intervals EXCEPT ![i].first_range_ = new, ![i].first_use_ = new_use])

\* The pass visits an instruction of the current block that uses value i.
AddUse(i, position, env) ==
    LET b == pass[i].blk
        iv == intervals[i]
        h == LI_AddUse(i, position, GetLifetimeStart(b), GetLifetimeEnd(b), Len(uses) + 1)
    IN  /\ ~pass[i].done
        /\ pass[i].stage <= 1
        /\ Len(uses) < MaxUses
        /\ position \in InstrPositions(b)
        /\ position <= pass[i].pos
        \* two uses at one position are two inputs of one instruction
        /\ (iv.first_use_ # nullptr /\ uses[iv.first_use_].position_ = position)
              => (env = uses[iv.first_use_].env /\ ~uses[iv.first_use_].phi)
        /\ ranges' = h.ranges
        /\ intervals' = h.intervals
        /\ uses' = Append(uses, UsePosition(env, FALSE, position, iv.first_use_))
        /\ pass' = [pass EXCEPT ![i].stage = 1, ![i].pos = position]
        /\ ret' = Call("AddUse", i, position, 0)
        /\ UNCHANGED encvars

(***************************************************************************)
(* LiveInterval::AddPhiUse: a phi of a successor uses value i at the end   *)
(* of the current block.                                                   *)
(***************************************************************************)
AddPhiUse(i) ==
    LET b == pass[i].blk
        iv == intervals[i]
    IN  /\ ~pass[i].done
        /\ pass[i].stage = 0
        /\ Len(uses) < MaxUses
        /\ uses' = Append(uses, UsePosition(FALSE, TRUE, GetLifetimeEnd(b), iv.first_use_))
        /\ intervals' = [intervals EXCEPT ![i].first_use_ = Len(uses) + 1]
        /\ ret' = Call("AddPhiUse", i, GetLifetimeEnd(b), 0)
        /\ UNCHANGED encvars
        /\ UNCHANGED <<ranges, pass>>

(***************************************************************************)
(* LiveInterval::AddRange                                                  *)
(***************************************************************************)
\* AddRange that never merges with the following block's range
LI_AddRange_NoMerge(i, start, end) ==
    LET iv == intervals[i]
        new == Len(ranges) + 1
    IN  IF iv.first_range_ = nullptr
        THEN Heap(Append(ranges, LiveRange(start, end, iv.first_range_)),
                  [intervals EXCEPT ![i].first_range_ = new, ![i].last_range_ = new])
        ELSE Heap(Append(ranges, LiveRange(start, end, iv.first_range_)),
                  [intervals EXCEPT ![i].first_range_ = new])

LI_AddRange(i, start, end) ==
    LET iv == intervals[i]
        new == Len(ranges) + 1
    IN  IF iv.first_range_ = nullptr
        THEN Heap(Append(ranges, LiveRange(start, end, iv.first_range_)),
                  [intervals EXCEPT ![i].first_range_ = new, ![i].last_range_ = new])
        ELSE IF ranges[iv.first_range_].start_ = end
        THEN \* There is a use in the following block.
             Heap([ranges EXCEPT ![iv.first_range_].start_ = start], intervals)
        ELSE \* There is a hole in the interval. Create a new range.
             Heap(Append(ranges, LiveRange(start, end, iv.first_range_)),
                  [intervals EXCEPT ![i].first_range_ = new])

\* Value i is live-in at the current block because of its successors.
AddRange(i) ==
    LET b == pass[i].blk
        h == LI_AddRange(i, GetLifetimeStart(b), GetLifetimeEnd(b))
    IN  /\ ~pass[i].done
        /\ pass[i].stage = 0
        /\ ranges' = h.ranges
        /\ intervals' = h.intervals
        /\ pass' = [pass EXCEPT ![i].stage = 1]
        /\ ret' = Call("AddRange", i, GetLifetimeStart(b), 0)
        /\ UNCHANGED encvars
        /\ UNCHANGED uses

(***************************************************************************)
(* LiveInterval::AddLoopRange                                              *)
(***************************************************************************)
\* while (first_range_ != nullptr && first_range_->GetEnd() < end)
\*   first_range_ = first_range_->GetNext();
\* the loop range that drops no range
SkipBefore_None(r, end) == r

RECURSIVE SkipBefore(_, _)
SkipBefore(r, end) ==
    IF r # nullptr /\ ranges[r].end_ < end THEN SkipBefore(ranges[r].next_, end) ELSE r

\* AddLoopRange that leaves last_range_ as it is
LI_AddLoopRange_KeepLast(i, start, end) ==
    LET first == SkipBefore(intervals[i].first_range_, end)
        new == Len(ranges) + 1
    IN  IF first = nullptr
        THEN Heap(Append(ranges, LiveRange(start, end, nullptr)),
                  [intervals EXCEPT ![i].first_range_ = new])
        ELSE Heap([ranges EXCEPT ![first].start_ = start],
                  [intervals EXCEPT ![i].first_range_ = first])

LI_AddLoopRange(i, start, end) ==
    LET first == SkipBefore(intervals[i].first_range_, end)
        new == Len(ranges) + 1
    IN  IF first = nullptr
        THEN \* Uses are only in the loop.
             Heap(Append(ranges, LiveRange(start, end, nullptr)),
                  [intervals EXCEPT ![i].first_range_ = new, ![i].last_range_ = new])
        ELSE \* There are uses after the loop.
             Heap([ranges EXCEPT ![first].start_ = start],
                  [intervals EXCEPT ![i].first_range_ = first])

\* The current block is the header of a loop whose back edge leaves block e.
AddLoopRange(i, e) ==
    LET b == pass[i].blk
        h == LI_AddLoopRange(i, GetLifetimeStart(b), GetLifetimeEnd(e))
    IN  /\ ~pass[i].done
        /\ pass[i].stage <= 1
        /\ e >= b
        /\ intervals[i].first_range_ # nullptr
        /\ ranges' = h.ranges
        /\ intervals' = h.intervals
        /\ pass' = [pass EXCEPT ![i].stage = 2]
        /\ ret' = Call("AddLoopRange", i, GetLifetimeEnd(e), 0)
        /\ UNCHANGED encvars
        /\ UNCHANGED uses

(***************************************************************************)
(* LiveInterval::SetFrom, called when the pass reaches the definition of   *)
(* value i: nothing is added to its interval afterwards.                   *)
(***************************************************************************)
LI_SetFrom(i, from) == [ranges EXCEPT ![intervals[i].first_range_].start_ = from]

SetFrom(i, from) ==
    LET b == pass[i].blk
    IN  /\ ~pass[i].done
        /\ pass[i].stage <= 1
        /\ intervals[i].first_range_ # nullptr
        /\ from >= GetLifetimeStart(b)
        /\ from < pass[i].pos
        /\ ranges' = LI_SetFrom(i, from)
        /\ pass' = [pass EXCEPT ![i].done = TRUE]
        /\ ret' = Call("SetFrom", i, from, 0)
        /\ UNCHANGED encvars
        /\ UNCHANGED <<uses, intervals>>

\* The pass moves on to the previous block of the linear order.
NextBlock(i) ==
    /\ ~pass[i].done
    /\ pass[i].blk > 1
    /\ pass' = [pass EXCEPT ![i].blk = @ - 1, ![i].stage = 0,
                            ![i].pos = GetLifetimeEnd(pass[i].blk - 1)]
    /\ ret' = NoCall
    /\ UNCHANGED encvars
    /\ UNCHANGED <<ranges, uses, intervals>>

(***************************************************************************)
(* Queries of LiveInterval.                                                *)
(***************************************************************************)
GetStart(i) == ranges[intervals[i].first_range_].start_

IsDeadAt(i, position) == ranges[intervals[i].last_range_].end_ <= position

RECURSIVE CoversFrom(_, _, _)
CoversFrom(rs, current, position) ==
    IF current = nullptr THEN FALSE
    ELSE IF position >= rs[current].start_ /\ position < rs[current].end_ THEN TRUE
    ELSE CoversFrom(rs, rs[current].next_, position)

\* Covers on the arenas rs, ivs (the state before or after a step).
CoversIn(rs, ivs, i, position) == CoversFrom(rs, ivs[i].first_range_, position)
Covers(i, position) == CoversIn(ranges, intervals, i, position)

\* IntersectsWith that only tests this range's start
IntersectsWith_OneSided(this, other) ==
    this.start_ >= other.start_ /\ this.start_ < other.end_

\* LiveRange::IntersectsWith, LiveRange::IsBefore
IntersectsWith(this, other) ==
    \/ (this.start_ >= other.start_ /\ this.start_ < other.end_)
    \/ (other.start_ >= this.start_ /\ other.start_ < this.end_)

IsBefore(this, other) == this.end_ <= other.start_

Max(a, b) == IF a >= b THEN a ELSE b

\* Move to the range in this interval that starts after the other interval.
RECURSIVE SkipToStart(_, _)
SkipToStart(my_range, other_start) ==
    IF my_range = nullptr THEN nullptr
    ELSE IF ranges[my_range].start_ >= other_start THEN my_range
    ELSE SkipToStart(ranges[my_range].next_, other_start)

\* Advance both intervals and find the first matching range start.
RECURSIVE Sweep(_, _)
Sweep(my_range, other_range) ==
    IF IntersectsWith(ranges[my_range], ranges[other_range])
    THEN Max(ranges[my_range].start_, ranges[other_range].start_)
    ELSE IF IsBefore(ranges[my_range], ranges[other_range])
    THEN IF ranges[my_range].next_ = nullptr THEN kNoLifetime
         ELSE Sweep(ranges[my_range].next_, other_range)
    ELSE IF ranges[other_range].next_ = nullptr THEN kNoLifetime
         ELSE Sweep(my_range, ranges[other_range].next_)

LI_FirstIntersectionWith(i, other) ==
    LET my_range == SkipToStart(intervals[i].first_range_, GetStart(other))
    IN  IF my_range = nullptr THEN kNoLifetime
        ELSE Sweep(my_range, intervals[other].first_range_)

\* the use walk without the NeedsEnvironment test
RECURSIVE FirstUseFrom_AnyUser(_, _)
FirstUseFrom_AnyUser(use, position) ==
    IF use = nullptr THEN kNoLifetime
    ELSE IF uses[use].position_ >= position THEN uses[use].position_
    ELSE FirstUseFrom_AnyUser(uses[use].next_, position)

RECURSIVE FirstUseFrom(_, _)
FirstUseFrom(use, position) ==
    IF use = nullptr THEN kNoLifetime
    ELSE IF uses[use].position_ >= position /\ ~uses[use].env THEN uses[use].position_
    ELSE FirstUseFrom(uses[use].next_, position)

LI_FirstRegisterUseAfter(i, position) == FirstUseFrom(intervals[i].first_use_, position)

\* An interval the register allocator may work on: its value's definition
\* has been reached by the pass (a sibling exists only after that).
Built(i) == i \in DOMAIN intervals /\ (i \in Values => pass[i].done)

FirstIntersectionWith(i, other) ==
    /\ Built(i) /\ Built(other) /\ i # other
    /\ ~Covers(i, GetStart(other))
    /\ GetStart(i) <= GetStart(other)
    /\ ret' = Call("FirstIntersectionWith", i, other, LI_FirstIntersectionWith(i, other))
    /\ UNCHANGED encvars
    /\ UNCHANGED <<ranges, uses, intervals, pass>>

FirstRegisterUseAfter(i, position) ==
    /\ Built(i)
    /\ ret' = Call("FirstRegisterUseAfter", i, position, LI_FirstRegisterUseAfter(i, position))
    /\ UNCHANGED encvars
    /\ UNCHANGED <<ranges, uses, intervals, pass>>

\* The allocator gives a register to an interval that has none and is not split.
SetRegister(i, reg) ==
    /\ Built(i)
    /\ intervals[i].next_sibling_ = nullptr
    /\ intervals[i].register_ = kNoRegister
    /\ intervals' = [intervals EXCEPT ![i].register_ = reg]
    /\ ret' = Call("SetRegister", i, reg, 0)
    /\ UNCHANGED encvars
    /\ UNCHANGED <<ranges, uses, pass>>

(***************************************************************************)
(* LiveInterval::SplitAt                                                   *)
(***************************************************************************)
\* The do-while loop: the range `current` the walk stops at, the one before
\* it, and why it stopped.
RECURSIVE SplitWalk(_, _, _)
SplitWalk(position, current, previous) ==
    IF position >= ranges[current].end_
    THEN \* Move to next range.
         IF ranges[current].next_ = nullptr
         THEN [stop |-> "unreachable", current |-> nullptr, previous |-> current]
         ELSE SplitWalk(position, ranges[current].next_, current)
    ELSE IF position <= ranges[current].start_
    THEN [stop |-> "hole", current |-> current, previous |-> previous]
    ELSE [stop |-> "covers", current |-> current, previous |-> previous]

\* What SplitAt leaves: the arenas and the returned interval (nullptr for
\* no split, FatalResult for LOG(FATAL)).
Split(rs, ivs, val) == [ranges |-> rs, intervals |-> ivs, val |-> val]

\* the liveness test of SplitAt with < for <=
DiesBefore_Strict(i, position) == ranges[intervals[i].last_range_].end_ < position

\* if (last_range_->GetEnd() <= position): the interval dies before position.
DiesBefore(i, position) == ranges[intervals[i].last_range_].end_ <= position

\* a sibling that starts with no use
Sibling_OwnUses(i, first) ==
    [LiveInterval EXCEPT !.first_range_ = first,
                         !.last_range_ = intervals[i].last_range_]

\* new_interval, with the use chain shared and the tail of the range chain.
Sibling(i, first) ==
    [LiveInterval EXCEPT !.first_use_ = intervals[i].first_use_,
                         !.first_range_ = first,
                         !.last_range_ = intervals[i].last_range_]

\* position is in a lifetime hole before w.current: break the links.
SplitInHole(i, w) ==
    LET new_interval == Len(intervals) + 1
    IN  Split([ranges EXCEPT ![w.previous].next_ = nullptr],
              Append([intervals EXCEPT ![i].next_sibling_ = new_interval,
                                       ![i].last_range_ = w.previous],
                     Sibling(i, w.current)),
              new_interval)

\* SplitInRange that forgets current->start_ = position
SplitInRange_KeepStart(i, position, w) ==
    LET new_interval == Len(intervals) + 1
        new_range == Len(ranges) + 1
        relinked == IF w.previous # nullptr
                    THEN [ranges EXCEPT ![w.previous].next_ = new_range]
                    ELSE ranges
    IN  Split(Append(relinked, LiveRange(ranges[w.current].start_, position, nullptr)),
              Append([intervals EXCEPT ![i].next_sibling_ = new_interval,
                                       ![i].last_range_ = new_range,
                                       ![i].first_range_ =
                                           IF w.previous = nullptr THEN new_range ELSE @],
                     Sibling(i, w.current)),
              new_interval)

\* w.current covers position: a new last range [start, position) for this
\* interval; the current range is shortened and starts the sibling.
SplitInRange(i, position, w) ==
    LET new_interval == Len(intervals) + 1
        new_range == Len(ranges) + 1
        cut == [ranges EXCEPT ![w.current].start_ = position]
        relinked == IF w.previous # nullptr
                    THEN [cut EXCEPT ![w.previous].next_ = new_range]
                    ELSE cut
    IN  Split(Append(relinked, LiveRange(ranges[w.current].start_, position, nullptr)),
              Append([intervals EXCEPT ![i].next_sibling_ = new_interval,
                                       ![i].last_range_ = new_range,
                                       ![i].first_range_ =
                                           IF w.previous = nullptr THEN new_range ELSE @],
                     Sibling(i, w.current)),
              new_interval)

LI_SplitAt(i, position) ==
    LET w == SplitWalk(position, intervals[i].first_range_, nullptr)
    IN  IF DiesBefore(i, position)
        THEN \* This range dies before `position`, no need to split.
             Split(ranges, intervals, nullptr)
        ELSE IF w.stop = "hole" /\ w.previous # nullptr
        THEN SplitInHole(i, w)
        ELSE IF w.stop = "covers"
        THEN SplitInRange(i, position, w)
        ELSE \* LOG(FATAL) << "Unreachable": the sibling is allocated and linked
             Split(ranges,
                   Append([intervals EXCEPT ![i].next_sibling_ = Len(intervals) + 1],
                          [LiveInterval EXCEPT !.first_use_ = intervals[i].first_use_]),
                   FatalResult)

\* The register allocator splits an interval that has no sibling yet.
SplitAt(i, position) ==
    LET s == LI_SplitAt(i, position)
    IN  /\ Built(i)
        /\ intervals[i].next_sibling_ = nullptr
        /\ position > GetStart(i)
        /\ Len(s.intervals) <= Len(pass) + MaxSplits
        /\ ranges' = s.ranges
        /\ intervals' = s.intervals
        /\ ret' = Call("SplitAt", i, position, s.val)
        /\ UNCHANGED encvars
        /\ UNCHANGED <<uses, pass>>

(***************************************************************************)
(* The liveness pass on one value, then the register allocator's calls.    *)
(***************************************************************************)
\* The calls on different intervals touch different cells; the pass is
\* modelled one value after the other.
Turn(i) == \A j \in 1..(i - 1) : pass[j].done

LiveNext ==
    \/ \E i \in Values, p \in Positions : Turn(i) /\ AddUse(i, p, FALSE)
    \/ \E i \in Values : Turn(i) /\ AddRange(i)
    \/ \E i \in Values, e \in Blocks : Turn(i) /\ AddLoopRange(i, e)
    \/ \E i \in Values, p \in Positions : Turn(i) /\ SetFrom(i, p)
    \/ \E i \in Values : Turn(i) /\ NextBlock(i)
    \/ \E i \in DOMAIN intervals, p \in Positions : SplitAt(i, p)
    \/ \E i \in DOMAIN intervals, r \in 0..(NumRegs - 1) : SetRegister(i, r)

Spec == LiveInit(1) /\ [][LiveNext]_vars

(***************************************************************************)
(* The pass on one value with every kind of use, then the allocator's      *)
(* queries of the use chain.                                               *)
(***************************************************************************)
UsesNext ==
    \/ \E i \in Values, p \in Positions, env \in BOOLEAN : Turn(i) /\ AddUse(i, p, env)
    \/ \E i \in Values : Turn(i) /\ AddPhiUse(i)
    \/ \E i \in Values : Turn(i) /\ AddRange(i)
    \/ \E i \in Values, e \in Blocks : Turn(i) /\ AddLoopRange(i, e)
    \/ \E i \in Values, p \in Positions : Turn(i) /\ SetFrom(i, p)
    \/ \E i \in Values : Turn(i) /\ NextBlock(i)
    \/ \E i \in DOMAIN intervals, p \in Positions : FirstRegisterUseAfter(i, p)

SpecUses == LiveInit(1) /\ [][UsesNext]_vars

(***************************************************************************)
(* Two values built by the pass, then FirstIntersectionWith, which reads   *)
(* the ranges only: every use is a plain one here.                         *)
(***************************************************************************)
PairNext ==
    \/ \E i \in Values, p \in Positions : Turn(i) /\ AddUse(i, p, FALSE)
    \/ \E i \in Values : Turn(i) /\ AddRange(i)
    \/ \E i \in Values, e \in Blocks : Turn(i) /\ AddLoopRange(i, e)
    \/ \E i \in Values, p \in Positions : Turn(i) /\ SetFrom(i, p)
    \/ \E i \in Values : Turn(i) /\ NextBlock(i)
    \/ \E i \in Values, other \in Values : FirstIntersectionWith(i, other)

SpecPair == LiveInit(2) /\ [][PairNext]_vars

(***************************************************************************)
(* Properties of the live intervals.                                       *)
(***************************************************************************)
RangeChain(i) == Chain(ranges, intervals[i].first_range_)
UseChain(i) == Chain(uses, intervals[i].first_use_)
Min(S) == CHOOSE x \in S : \A y \in S : x <= y

RangesOrdered(i) ==
    LET c == RangeChain(i)
    IN  /\ \A k \in 1..Len(c) : ranges[c[k]].start_ < ranges[c[k]].end_
        /\ \A k \in 1..(Len(c) - 1) : ranges[c[k]].end_ <= ranges[c[k + 1]].start_
        /\ \A k \in 1..(Len(c) - 1) : ranges[c[k]].end_ # ranges[c[k + 1]].start_

\* C1: in every state of the backward pass and of the splits that follow,
\* every interval's range chain is ordered and disjoint: each range has
\* start < end, consecutive ranges have end <= next start, and no two
\* consecutive ranges touch (a touching contribution is merged).
C1_RangesOrderedDisjoint == \A i \in DOMAIN intervals : RangesOrdered(i)

\* an interval of two ranges, one of them merged over more than a block,
\* after a split
C1_Witness ==
    /\ Len(intervals) > 1
    /\ \E i \in DOMAIN intervals :
          /\ Len(RangeChain(i)) >= 2
          /\ \E k \in 1..Len(RangeChain(i)) :
                ranges[RangeChain(i)[k]].end_ - ranges[RangeChain(i)[k]].start_ > BlockLen

\* C2: a SplitAt(p) that returns a sibling partitions the positions the
\* interval covered: the original keeps exactly those before p, the sibling
\* gets exactly those at or after p.
C2_SplitAtPartitions ==
    [][(ret'.op = "SplitAt" /\ ret'.val # nullptr) =>
          \A q \in Positions :
             /\ CoversIn(ranges', intervals', ret'.self, q)
                   <=> (Covers(ret'.self, q) /\ q < ret'.arg)
             /\ ret'.val \in DOMAIN intervals'
             /\ CoversIn(ranges', intervals', ret'.val, q)
                   <=> (Covers(ret'.self, q) /\ q >= ret'.arg)]_livars

\* a first split inside a range (the two halves touch at p), then a split of
\* the sibling in a lifetime hole
C2_Witness ==
    /\ Len(intervals) = 3
    /\ intervals[1].next_sibling_ = 2 /\ intervals[2].next_sibling_ = 3
    /\ ranges[intervals[1].last_range_].end_ = GetStart(2)
    /\ ranges[intervals[2].last_range_].end_ < GetStart(3)

\* C3: SplitAt(p) on an interval whose last range ends at or before p
\* returns nullptr and changes nothing: no sibling, the same ranges, uses,
\* register and next_sibling_.
C3_SplitAtDeadIsNoOp ==
    [][(ret'.op = "SplitAt" /\ ranges[intervals[ret'.self].last_range_].end_ <= ret'.arg) =>
          /\ ret'.val = nullptr
          /\ intervals' = intervals
          /\ ranges' = ranges
          /\ uses' = uses]_livars

\* SplitAt at exactly the end of the last range of an interval that has a
\* register and a use returned nullptr
C3_Witness ==
    /\ ret.op = "SplitAt" /\ ret.val = nullptr
    /\ ranges[intervals[ret.self].last_range_].end_ = ret.arg
    /\ intervals[ret.self].register_ # kNoRegister
    /\ intervals[ret.self].first_use_ # nullptr
    /\ Len(intervals) = 1

CommonPositions(a, b) == {q \in Positions : Covers(a, q) /\ Covers(b, q)}

\* C4: under its preconditions, FirstIntersectionWith returns the smallest
\* position both intervals cover, and kNoLifetime exactly when there is none.
C4_FirstIntersection ==
    ret.op = "FirstIntersectionWith" =>
       LET c == CommonPositions(ret.self, ret.arg)
       IN  IF c = {} THEN ret.val = kNoLifetime ELSE ret.val = Min(c)

\* an intersection found after this interval's first range was skipped, later
\* than the other interval's start
C4_Witness ==
    /\ ret.op = "FirstIntersectionWith"
    /\ ret.val # kNoLifetime
    /\ ret.val > GetStart(ret.arg)
    /\ Len(RangeChain(ret.self)) >= 2

RegisterUsesAfter(i, position) ==
    {uses[UseChain(i)[k]].position_ :
        k \in {j \in 1..Len(UseChain(i)) :
                  /\ uses[UseChain(i)[j]].position_ >= position
                  /\ ~uses[UseChain(i)[j]].env}}

\* C5: FirstRegisterUseAfter(p) returns the smallest position >= p of a use
\* whose user needs no environment, and kNoLifetime when there is none.
C5_FirstRegisterUse ==
    ret.op = "FirstRegisterUseAfter" =>
       LET u == RegisterUsesAfter(ret.self, ret.arg)
       IN  IF u = {} THEN ret.val = kNoLifetime ELSE ret.val = Min(u)

\* the only use at or after p is one by an environment-needing instruction
\* (a plain use lies before p): kNoLifetime is returned
C5_Witness ==
    /\ ret.op = "FirstRegisterUseAfter"
    /\ ret.val = kNoLifetime
    /\ \E k \in 1..Len(UseChain(ret.self)) :
          /\ uses[UseChain(ret.self)[k]].env
          /\ uses[UseChain(ret.self)[k]].position_ >= ret.arg
    /\ \E k \in 1..Len(UseChain(ret.self)) :
          /\ ~uses[UseChain(ret.self)[k]].env
          /\ uses[UseChain(ret.self)[k]].position_ < ret.arg

(***************************************************************************)
(* utility_arm64.cc.  An unsigned integer of the code (uint32_t, uint64_t, *)
(* or the bits of an int32_t / int64_t) is the set of the positions of its *)
(* set bits: 0x5 is {0, 2}.  The C operators on such values:               *)
(***************************************************************************)
BitAnd(a, b) == a \cap b
BitOr(a, b) == a \cup b
BitXor(a, b) == (a \ b) \cup (b \ a)
\* ~a in a type of w bits
BitNot(w, a) == (0..(w - 1)) \ a
\* a >> k
Shr(a, k) == {i - k : i \in {j \in a : j >= k}}
\* a << k in a type of w bits
Shl(w, a, k) == {i + k : i \in {j \in a : j + k < w}}
\* (uintN_t)a
Truncate(w, a) == a \cap (0..(w - 1))

\* The number a set of bit positions below 31 stands for.
RECURSIVE ToInt(_)
ToInt(a) ==
    IF a = {} THEN 0
    ELSE LET i == CHOOSE j \in a : TRUE IN 2^i + ToInt(a \ {i})

\* The 32 bits of an int or unsigned of the code, two's complement.
NatBits(n) == {i \in 0..30 : (n \div 2^i) % 2 = 1}
Bits32(n) == IF n >= 0 THEN NatBits(n) ELSE (0..31) \ NatBits(-n - 1)
\* The int a 32-bit pattern converts to.
Int32(a) == IF 31 \in a THEN -ToInt((0..31) \ a) - 1 ELSE ToInt(a)

(***************************************************************************)
(* EncodeImmSingle, EncodeImmDouble                                        *)
(***************************************************************************)
\* EncodeImmSingle whose first test clears bits [19..0], as its comment says
EncodeImmSingle_Clear20(bits) ==
    IF BitAnd(bits, 0..19) # {}
    THEN -1
    ELSE LET b_pattern == BitAnd(Shr(bits, 16), 9..13)
         IN  IF b_pattern # {} /\ b_pattern # 9..13
             THEN -1
             ELSE IF BitAnd(BitXor(bits, Shl(32, bits, 1)), {30}) = {}
             THEN -1
             ELSE LET bit7 == Shl(32, BitAnd(Shr(bits, 31), {0}), 7)
                      bit6 == Shl(32, BitAnd(Shr(bits, 29), {0}), 6)
                      bit5_to_0 == BitAnd(Shr(bits, 19), 0..5)
                  IN  Int32(BitOr(BitOr(bit7, bit6), bit5_to_0))

EncodeImmSingle(bits) ==
    \* (bits & 0x0007ffff) != 0
    IF BitAnd(bits, 0..18) # {}
    THEN -1
    ELSE \* (bits >> 16) & 0x3e00
         LET b_pattern == BitAnd(Shr(bits, 16), 9..13)
         IN  IF b_pattern # {} /\ b_pattern # 9..13
             THEN -1
             ELSE \* ((bits ^ (bits << 1)) & 0x40000000) == 0
                  IF BitAnd(BitXor(bits, Shl(32, bits, 1)), {30}) = {}
             THEN -1
             ELSE LET bit7 == Shl(32, BitAnd(Shr(bits, 31), {0}), 7)
                      bit6 == Shl(32, BitAnd(Shr(bits, 29), {0}), 6)
                      \* (bits >> 19) & 0x3f
                      bit5_to_0 == BitAnd(Shr(bits, 19), 0..5)
                  IN  Int32(BitOr(BitOr(bit7, bit6), bit5_to_0))

EncodeImmDouble(bits) ==
    \* (bits & 0xffffffffffff) != 0
    IF BitAnd(bits, 0..47) # {}
    THEN -1
    ELSE \* (uint32_t)((bits >> 48) & 0x3fc0)
         LET b_pattern == Truncate(32, BitAnd(Shr(bits, 48), 6..13))
         IN  IF b_pattern # {} /\ b_pattern # 6..13
             THEN -1
             ELSE \* ((bits ^ (bits << 1)) & 0x4000000000000000) == 0
                  IF BitAnd(BitXor(bits, Shl(64, bits, 1)), {62}) = {}
             THEN -1
             ELSE LET bit7 == Shl(32, Truncate(32, BitAnd(Shr(bits, 63), {0})), 7)
                      bit6 == Shl(32, Truncate(32, BitAnd(Shr(bits, 61), {0})), 6)
                      \* (bits >> 48) & 0x3f
                      bit5_to_0 == Truncate(32, BitAnd(Shr(bits, 48), 0..5))
                  IN  Int32(BitOr(BitOr(bit7, bit6), bit5_to_0))

(***************************************************************************)
(* The encoders applied to drawn bit patterns.                             *)
(***************************************************************************)
\* Every combination of the bits the encoders read one by one, over low
\* bits that are clear, set at either end of the cleared field, or all set.
FpImmInputs(high_bits, low_bits) ==
    {high \cup low : high \in SUBSET high_bits, low \in low_bits}

\* The live intervals are not part of the code generator's state.
NoIntervals ==
    /\ ranges = <<>>
    /\ uses = <<>>
    /\ intervals = <<>>
    /\ pass = <<>>

\* A method with no instruction and no literal yet.
EmptyMethod ==
    /\ NoIntervals
    /\ builder = NoBuilder
    /\ ret = NoCall
    /\ insns = <<>>
    /\ data = <<>>
    /\ literal_list_ = nullptr

EncInit == EmptyMethod /\ reg_pool_ = NoTemps

FpImmInit ==
    /\ EncInit
    /\ \/ \E bits \in FpImmInputs(19..31, {{}, {0}, {18}, 0..18}) :
              input = [op |-> "EncodeImmSingle", bits |-> bits]
       \/ \E bits \in FpImmInputs(48..63, {{}, {0}, {47}}) :
              input = [op |-> "EncodeImmDouble", bits |-> bits]

CallEncodeImmSingle ==
    /\ input.op = "EncodeImmSingle"
    /\ ret = NoCall
    /\ ret' = Call("EncodeImmSingle", 0, input.bits, EncodeImmSingle(input.bits))
    /\ UNCHANGED <<ranges, uses, intervals, pass, encvars>>

CallEncodeImmDouble ==
    /\ input.op = "EncodeImmDouble"
    /\ ret = NoCall
    /\ ret' = Call("EncodeImmDouble", 0, input.bits, EncodeImmDouble(input.bits))
    /\ UNCHANGED <<ranges, uses, intervals, pass, encvars>>

FpImmNext ==
    \/ CallEncodeImmSingle
    \/ CallEncodeImmDouble

SpecFpImm == FpImmInit /\ [][FpImmNext]_vars

(***************************************************************************)
(* LIR nodes.  An instruction is a record with its opcode, its operand     *)
(* slots and its target; a literal is a data node with the word it holds   *)
(* (operands[0]) and the next node of literal_list_.                       *)
(***************************************************************************)
MaxInsns == 3        \* instructions appended to the method
NumFpRegs == 1       \* destination registers of the loads (0..NumFpRegs-1)

FpRegs == 0..(NumFpRegs - 1)

A64Opcode(name) == [name |-> name, wide |-> FALSE]
\* FWIDE(opcode): the same instruction on a 64-bit register
FWIDE(opcode) == [opcode EXCEPT !.wide = TRUE]
kA64Fmov2sw == A64Opcode("kA64Fmov2sw")
kA64Fmov2Sx == A64Opcode("kA64Fmov2Sx")
kA64Fmov2fI == A64Opcode("kA64Fmov2fI")
kA64Ldr2fp == A64Opcode("kA64Ldr2fp")
rwzr == "rwzr"

RawLIR(opcode, op0, op1, op2, op3, op4, target) ==
    [opcode |-> opcode, operands |-> <<op0, op1, op2, op3, op4>>, target |-> target]

\* What a code generating method leaves: the instruction list, the literal
\* pool, and the instruction it returns (its index in insns).
Emitted(ins, lits, val) ==
    [insns |-> ins, data |-> lits.data, literal_list_ |-> lits.literal_list_, val |-> val]
Literals(ds, head) == [data |-> ds, literal_list_ |-> head]

\* AppendLIR(lir) on a node made by RawLIR
AppendLIR(lir, lits) == Emitted(Append(insns, lir), lits, Len(insns) + 1)

\* NewLIR2(opcode, dest, src1): RawLIR then AppendLIR
NewLIR2(opcode, dest, src1) ==
    AppendLIR(RawLIR(opcode, dest, src1, 0, 0, 0, nullptr), Literals(data, literal_list_))

\* ScanLiteralPool(data_target, value, 0): the first node from data_target
\* that holds value, or NULL
RECURSIVE ScanLiteralPool(_, _)
ScanLiteralPool(data_target, value) ==
    IF data_target = nullptr
    THEN nullptr
    ELSE IF data[data_target].operands0 = value
         THEN data_target
         ELSE ScanLiteralPool(data[data_target].next, value)

\* ScanLiteralPoolWide(data_target, val_lo, val_hi): the first node that
\* holds val_lo and is followed by a node that holds val_hi, or NULL
RECURSIVE ScanLiteralPoolWide(_, _, _)
ScanLiteralPoolWide(data_target, val_lo, val_hi) ==
    IF data_target = nullptr
    THEN nullptr
    ELSE LET following == data[data_target].next
         IN  IF /\ data[data_target].operands0 = val_lo
                /\ following # nullptr
                /\ data[following].operands0 = val_hi
             THEN data_target
             ELSE ScanLiteralPoolWide(following, val_lo, val_hi)

\* AddWordData(&literal_list_, value): a new node at the head of the list
AddWordData(lits, value) ==
    Literals(Append(lits.data, [operands0 |-> value, next |-> lits.literal_list_]),
             Len(lits.data) + 1)

\* AddWideData(&literal_list_, val_lo, val_hi): the high word, then the low
\* word in front of it
AddWideData(lits, val_lo, val_hi) == AddWordData(AddWordData(lits, val_hi), val_lo)

Low32Bits(value) == Truncate(32, value)
High32Bits(value) == Truncate(32, Shr(value, 32))

(***************************************************************************)
(* LoadFPConstantValue, LoadFPConstantValueWide                            *)
(***************************************************************************)
\* The literal a load refers to: [lits, data_target].
\* A load that adds its word without scanning the pool
WordLiteral_AlwaysAdd(value) ==
    LET lits == AddWordData(Literals(data, literal_list_), value)
    IN  [lits |-> lits, data_target |-> lits.literal_list_]

WordLiteral(value) ==
    LET data_target == ScanLiteralPool(literal_list_, value)
    IN  IF data_target = nullptr
        THEN LET lits == AddWordData(Literals(data, literal_list_), value)
             IN  [lits |-> lits, data_target |-> lits.literal_list_]
        ELSE [lits |-> Literals(data, literal_list_), data_target |-> data_target]

WideLiteral(value) ==
    LET val_lo == Low32Bits(value)
        val_hi == High32Bits(value)
        data_target == ScanLiteralPoolWide(literal_list_, val_lo, val_hi)
    IN  IF data_target = nullptr
        THEN LET lits == AddWideData(Literals(data, literal_list_), val_lo, val_hi)
             IN  [lits |-> lits, data_target |-> lits.literal_list_]
        ELSE [lits |-> Literals(data, literal_list_), data_target |-> data_target]

\* LoadFPConstantValue without the test of value == 0
A64_LoadFPConstantValue_NoZeroTest(r_dest, value) ==
    LET encoded_imm == EncodeImmSingle(value)
    IN  IF encoded_imm >= 0
        THEN NewLIR2(kA64Fmov2fI, r_dest, encoded_imm)
        ELSE LET lit == WordLiteral(value)
                 load_pc_rel == RawLIR(kA64Ldr2fp, r_dest, 0, 0, 0, 0, lit.data_target)
             IN  AppendLIR(load_pc_rel, lit.lits)

A64_LoadFPConstantValue(r_dest, value) ==
    IF value = {}
    THEN NewLIR2(kA64Fmov2sw, r_dest, rwzr)
    ELSE LET encoded_imm == EncodeImmSingle(value)
         IN  IF encoded_imm >= 0
             THEN NewLIR2(kA64Fmov2fI, r_dest, encoded_imm)
             ELSE LET lit == WordLiteral(value)
                      load_pc_rel == RawLIR(kA64Ldr2fp, r_dest, 0, 0, 0, 0, lit.data_target)
                  IN  AppendLIR(load_pc_rel, lit.lits)

A64_LoadFPConstantValueWide(r_dest, value) ==
    IF value = {}
    THEN NewLIR2(kA64Fmov2Sx, r_dest, rwzr)
    ELSE LET encoded_imm == EncodeImmDouble(value)
         IN  IF encoded_imm >= 0
             THEN NewLIR2(FWIDE(kA64Fmov2fI), r_dest, encoded_imm)
             ELSE LET lit == WideLiteral(value)
                      load_pc_rel == RawLIR(FWIDE(kA64Ldr2fp), r_dest, 0, 0, 0, 0,
                                            lit.data_target)
                  IN  AppendLIR(load_pc_rel, lit.lits)

LoadFPConstantValue(r_dest, value) ==
    LET e == A64_LoadFPConstantValue(r_dest, value)
    IN  /\ Len(insns) < MaxInsns
        /\ insns' = e.insns
        /\ data' = e.data
        /\ literal_list_' = e.literal_list_
        /\ ret' = Call("LoadFPConstantValue", r_dest, value, e.val)
        /\ UNCHANGED <<ranges, uses, intervals, pass, input, reg_pool_, builder>>

LoadFPConstantValueWide(r_dest, value) ==
    LET e == A64_LoadFPConstantValueWide(r_dest, value)
    IN  /\ Len(insns) < MaxInsns
        /\ insns' = e.insns
        /\ data' = e.data
        /\ literal_list_' = e.literal_list_
        /\ ret' = Call("LoadFPConstantValueWide", r_dest, value, e.val)
        /\ UNCHANGED <<ranges, uses, intervals, pass, input, reg_pool_, builder>>

(***************************************************************************)
(* The constants one method loads: 0, constants with a compact encoding,   *)
(* constants without, and doubles made of the words of those singles.      *)
(***************************************************************************)
\* 1.0f = 0x3f800000, 3.14159f = 0x40490fd0, 2.71828f = 0x402df84d
OneF == 23..29
PiF == {4, 6, 7, 8, 9, 10, 11, 16, 19, 22, 30}
EulerF == {0, 2, 3, 6, 11, 12, 13, 14, 15, 16, 18, 19, 21, 30}
\* the int64_t whose low word is lo and whose high word is hi
WordPair(lo, hi) == lo \cup {i + 32 : i \in hi}
\* 1.0 = 0x3ff0000000000000, 3.14159 = 0x400921f9f01b866e
OneD == 52..61
PiD == WordPair({1, 2, 3, 5, 6, 9, 10, 15, 16, 17, 19, 20, 28, 29, 30, 31},
                {0, 3, 4, 5, 6, 7, 8, 13, 16, 19, 30})

SingleValues == {{}, OneF, PiF, EulerF}
\* 0x3f80000100000000: no compact encoding, and its low word is 0
ZeroLowD == WordPair({}, OneF \cup {0})
WideValues ==
    {{}, OneD, PiD, ZeroLowD, WordPair(PiF, EulerF), WordPair(EulerF, PiF),
     WordPair(PiF, PiF)}

FpLoadInit == EncInit /\ input = NoInput

FpLoadNext ==
    \/ \E r_dest \in FpRegs, value \in SingleValues : LoadFPConstantValue(r_dest, value)
    \/ \E r_dest \in FpRegs, value \in WideValues : LoadFPConstantValueWide(r_dest, value)

SpecFpLoad == FpLoadInit /\ [][FpLoadNext]_vars

(***************************************************************************)
(* CountLeadingZeros, CountTrailingZeros, CountSetBits.  The result of     *)
(* __builtin_clz and __builtin_ctz is undefined for 0: undef is what the   *)
(* build returns then.                                                     *)
(***************************************************************************)
MaxOf(S) == CHOOSE x \in S : \A y \in S : x >= y
MinOf(S) == CHOOSE x \in S : \A y \in S : x <= y

CountLeadingZeros(is_wide, value, undef) ==
    LET w == IF is_wide THEN 64 ELSE 32
        v == Truncate(w, value)
    IN  IF v = {} THEN undef ELSE w - 1 - MaxOf(v)

CountTrailingZeros(is_wide, value, undef) ==
    LET w == IF is_wide THEN 64 ELSE 32
        v == Truncate(w, value)
    IN  IF v = {} THEN undef ELSE MinOf(v)

CountSetBits(is_wide, value) ==
    IF is_wide THEN Cardinality(value) ELSE Cardinality(Truncate(32, value))

\* What the builtins may return for 0, up to the width of their argument.
ClzUndefined == 0..32

(***************************************************************************)
(* EncodeLogicalImmediate                                                  *)
(***************************************************************************)
\* imm_s = ((imm_s_fixed | (set_bits - 1)) & imm_s_mask)
ImmS(imm_s_fixed, set_bits) ==
    Int32(BitAnd(BitOr(Bits32(imm_s_fixed), Bits32(set_bits - 1)), 0..5))

\* The rotation that takes the trailing zeros for every run
ImmR_TrailZero(c, width, set_bits) ==
    IF c.lead_zero + set_bits = width THEN 0 ELSE width - c.trail_zero

ImmR(c, width, set_bits) ==
    IF c.lead_zero + set_bits = width
    THEN 0
    ELSE IF c.lead_zero > 0 THEN width - c.trail_zero ELSE c.lead_one

\* Step 5 that never finds the halves equal
HalvesEqual_Never(value, width) == FALSE

\* (value & mask) == ((value >> (width >> 1)) & mask)
HalvesEqual(value, width) ==
    LET mask == 0..((width \div 2) - 1)
    IN  BitAnd(value, mask) = BitAnd(Shr(value, width \div 2), mask)

\* The loop: [ok, n, imm_s, imm_r], ok FALSE when step 6 is reached.
RECURSIVE EncodeLoop(_, _, _, _, _)
EncodeLoop(value, c, width, set_bits, imm_s_fixed) ==
    IF width = 2
    THEN \* 2. If the value is two bits wide, it can be encoded.
         [ok |-> TRUE, n |-> 0, imm_s |-> 60, imm_r |-> Int32(BitAnd(value, {0, 1})) - 1]
    ELSE LET n == IF width = 64 THEN 1 ELSE 0
             imm_s == ImmS(imm_s_fixed, set_bits)
             imm_r == ImmR(c, width, set_bits)
             found == [ok |-> TRUE, n |-> n, imm_s |-> imm_s, imm_r |-> imm_r]
         IN  IF c.lead_zero + c.trail_zero + set_bits = width
             THEN found
             ELSE IF c.lead_one + c.trail_one + (width - set_bits) = width
             THEN found
             ELSE IF HalvesEqual(value, width)
             THEN \* width >>= 1; set_bits >>= 1; imm_s_fixed >>= 1;
                  EncodeLoop(value, c, width \div 2, set_bits \div 2, imm_s_fixed \div 2)
             ELSE [ok |-> FALSE, n |-> n, imm_s |-> imm_s, imm_r |-> imm_r]

EncodeLogicalImmediate(is_wide, value, undef) ==
    IF value = {} \/ value = 0..63 \/ (~is_wide /\ Truncate(32, value) = 0..31)
    THEN -1
    ELSE LET c == [lead_zero |-> CountLeadingZeros(is_wide, value, undef.clz),
                   lead_one |-> CountLeadingZeros(is_wide, BitNot(64, value), undef.clz),
                   trail_zero |-> CountTrailingZeros(is_wide, value, undef.ctz),
                   trail_one |-> CountTrailingZeros(is_wide, BitNot(64, value), undef.ctz)]
             set_bits == CountSetBits(is_wide, value)
             width == IF is_wide THEN 64 ELSE 32
             imm_s_fixed == IF is_wide THEN -128 ELSE -64
             e == EncodeLoop(value, c, width, set_bits, imm_s_fixed)
         IN  IF e.ok
             THEN \* (n << 12 | imm_r << 6 | imm_s), unsigned, returned as int
                  Int32(BitOr(BitOr(Shl(32, Bits32(e.n), 12), Shl(32, Bits32(e.imm_r), 6)),
                              Bits32(e.imm_s)))
             ELSE -1

\* The table of N, imms, immr: the pattern an encoding stands for, {-1} when
\* it stands for none.
DecodeLogicalImmediate(is_wide, encoding) ==
    LET n == (encoding \div 4096) % 2
        imm_r == (encoding \div 64) % 64
        imm_s == encoding % 64
        width == IF is_wide THEN 64 ELSE 32
        size == IF n = 1 THEN 64
                ELSE IF imm_s < 32 THEN 32
                ELSE IF imm_s < 48 THEN 16
                ELSE IF imm_s < 56 THEN 8
                ELSE IF imm_s < 60 THEN 4
                ELSE IF imm_s < 62 THEN 2
                ELSE 0
    IN  IF encoding \notin 0..8191 \/ size = 0 \/ size > width
        THEN {-1}
        ELSE LET S == imm_s % size
                 R == imm_r % size
             IN  IF S = size - 1
                 THEN {-1}
                 ELSE {((b - R) % size) + k * size :
                          b \in 0..S, k \in 0..((width \div size) - 1)}

(***************************************************************************)
(* EncodeLogicalImmediate applied to drawn values.                         *)
(***************************************************************************)
\* A run of run bits rotated right by rot in an element of size bits,
\* repeated across width bits.
Repeated(width, size, run, rot) ==
    {((b - rot) % size) + k * size : b \in 0..(run - 1), k \in 0..((width \div size) - 1)}

\* Every such value, as it is and with one bit changed; 0, all ones; a
\* value with no structure (0x0123456789abcdef, resp. its low word).
LogicalValues(width) ==
    LET sizes == {size \in {2, 4, 8, 16, 32, 64} : size <= width}
        flips == {{}, {0}, {7}, {width \div 2}, {width - 1}}
        runs == UNION {{Repeated(width, size, run, rot) :
                           run \in 1..(size - 1), rot \in 0..(size - 1)} : size \in sizes}
    IN  {BitXor(v, f) : v \in runs, f \in flips}
            \cup {{}, 0..(width - 1)}
            \cup {Truncate(width,
                           {0, 1, 2, 3, 5, 6, 7, 8, 10, 11, 14, 15, 16, 17, 19, 21, 23, 24,
                            27, 31, 32, 33, 34, 37, 38, 40, 42, 46, 48, 49, 53, 56})}

\* Arguments for is_wide false whose upper 32 bits are not 0.
UpperValues ==
    {WordPair(low, high) : low \in {{}, 0..31, {0}, 4..7, 24..31, {0, 2, 31}},
                           high \in {0..31, {0}, {31}}}

LogicalInit ==
    /\ EncInit
    /\ \/ \E value \in LogicalValues(64) :
              input = [op |-> "EncodeLogicalImmediate", is_wide |-> TRUE, value |-> value]
       \/ \E value \in LogicalValues(32) \cup UpperValues :
              input = [op |-> "EncodeLogicalImmediate", is_wide |-> FALSE, value |-> value]

\* The builtins are applied to 0 when is_wide is false and the low word is 0
\* (a value of 0 returns before them).
UndefinedCounts(is_wide, value) ==
    IF ~is_wide /\ Truncate(32, value) = {} /\ value # {}
    THEN {[clz |-> a, ctz |-> b] : a \in ClzUndefined, b \in ClzUndefined}
    ELSE {[clz |-> 0, ctz |-> 0]}

CallEncodeLogicalImmediate ==
    /\ input.op = "EncodeLogicalImmediate"
    /\ ret = NoCall
    /\ \E undef \in UndefinedCounts(input.is_wide, input.value) :
           ret' = Call("EncodeLogicalImmediate", input.is_wide, input.value,
                       EncodeLogicalImmediate(input.is_wide, input.value, undef))
    /\ UNCHANGED <<ranges, uses, intervals, pass, encvars>>

LogicalNext == CallEncodeLogicalImmediate

SpecLogical == LogicalInit /\ [][LogicalNext]_vars

(***************************************************************************)
(* Registers and instructions of the integer code.  A RegStorage is its    *)
(* register number with what IsFloat() and Is64Bit() answer.               *)
(***************************************************************************)
RegStorage(is_float, is_64bit, reg) ==
    [is_float |-> is_float, is_64bit |-> is_64bit, reg |-> reg]

kA64Mov2rr == A64Opcode("kA64Mov2rr")
kA64Mvn2rr == A64Opcode("kA64Mvn2rr")
kA64Movn3rdM == A64Opcode("kA64Movn3rdM")
kA64Movz3rdM == A64Opcode("kA64Movz3rdM")
kA64Movk3rdM == A64Opcode("kA64Movk3rdM")
kA64Orr3Rrl == A64Opcode("kA64Orr3Rrl")

\* The method as a code generating call finds it.
Method == Emitted(insns, Literals(data, literal_list_), nullptr)

\* RawLIR then AppendLIR on the instructions of e; val is the new instruction.
EmitLIR(e, lir) == [e EXCEPT !.insns = Append(@, lir), !.val = Len(e.insns) + 1]
NewLIR1(e, opcode, dest) == EmitLIR(e, RawLIR(opcode, dest, 0, 0, 0, 0, nullptr))
NewLIR3(e, opcode, dest, src1, src2) ==
    EmitLIR(e, RawLIR(opcode, dest, src1, src2, 0, 0, nullptr))
NewLIR4(e, opcode, dest, src1, src2, info) ==
    EmitLIR(e, RawLIR(opcode, dest, src1, src2, info, 0, nullptr))

\* High16Bits, Low16Bits of an int, as uint16_t
High16Bits(value) == BitAnd(Shr(value, 16), 0..15)
Low16Bits(value) == BitAnd(value, 0..15)
\* the uint64_t an int converts to
SignExtend(value) == IF 31 \in value THEN value \cup (32..63) ELSE value

(***************************************************************************)
(* LoadConstantNoClobber                                                   *)
(***************************************************************************)
\* (uint16_t)(bits + 1) <= 1
IsFastHalf(bits) == (ToInt(bits) + 1) % 65536 <= 1

\* The single movz / movn that passes useful_bits to movn as they are
MoveWide_NotInverted(e, r_dest, low_bits, high_bits, high_fast) ==
    LET shift == IF high_fast THEN 0 ELSE 1
        uniform_bits == IF high_fast THEN high_bits ELSE low_bits
        useful_bits == IF high_fast THEN low_bits ELSE high_bits
    IN  IF uniform_bits # {}
        THEN NewLIR3(e, kA64Movn3rdM, r_dest.reg, Int32(useful_bits), shift)
        ELSE NewLIR3(e, kA64Movz3rdM, r_dest.reg, Int32(useful_bits), shift)

MoveWide(e, r_dest, low_bits, high_bits, high_fast) ==
    LET shift == IF high_fast THEN 0 ELSE 1
        uniform_bits == IF high_fast THEN high_bits ELSE low_bits
        useful_bits == IF high_fast THEN low_bits ELSE high_bits
    IN  IF uniform_bits # {}
        THEN \* ~useful_bits is an int: the uint16_t is promoted first
             NewLIR3(e, kA64Movn3rdM, r_dest.reg, Int32(BitNot(32, useful_bits)), shift)
        ELSE NewLIR3(e, kA64Movz3rdM, r_dest.reg, Int32(useful_bits), shift)

A64_LoadConstantNoClobber(r_dest, value, undef) ==
    IF r_dest.is_float
    THEN A64_LoadFPConstantValue(r_dest.reg, value)
    ELSE LET high_bits == High16Bits(value)
             low_bits == Low16Bits(value)
             low_fast == IsFastHalf(low_bits)
             high_fast == IsFastHalf(high_bits)
         IN  IF low_fast \/ high_fast
             THEN IF low_bits = high_bits
                  THEN LET opcode == IF low_bits = {} THEN kA64Mov2rr ELSE kA64Mvn2rr
                       IN  EmitLIR(Method, RawLIR(opcode, r_dest.reg, rwzr, 0, 0, 0, nullptr))
                  ELSE MoveWide(Method, r_dest, low_bits, high_bits, high_fast)
             ELSE LET log_imm == EncodeLogicalImmediate(FALSE, SignExtend(value), undef)
                  IN  IF log_imm >= 0
                      THEN EmitLIR(Method,
                                   RawLIR(kA64Orr3Rrl, r_dest.reg, rwzr, log_imm, 0, 0, nullptr))
                      ELSE LET res == NewLIR3(Method, kA64Movz3rdM, r_dest.reg,
                                              Int32(low_bits), 0)
                               last == NewLIR3(res, kA64Movk3rdM, r_dest.reg,
                                               Int32(high_bits), 1)
                           IN  [last EXCEPT !.val = res.val]

\* The halves a constant is made of: 0x0000, 0xffff, and halves that are
\* neither, with either end bit set or clear.
Halves ==
    {{}, 0..15, {0}, {15}, 0..14, 1..15, 0..7, 8..15, {2, 4, 5, 9, 12},
     {0, 2, 4, 6, 8, 10, 12, 14}}
ConstantValues(logical) ==
    {lo \cup {b + 16 : b \in hi} : lo \in Halves, hi \in Halves} \cup logical

LoadConstInit ==
    /\ EncInit
    /\ \E value \in ConstantValues(LogicalValues(32)),
          r_dest \in {RegStorage(FALSE, FALSE, 0), RegStorage(TRUE, FALSE, 0)} :
           input = [op |-> "LoadConstantNoClobber", r_dest |-> r_dest, value |-> value]

LoadConstantNoClobber ==
    /\ input.op = "LoadConstantNoClobber"
    /\ ret = NoCall
    /\ \E undef \in UndefinedCounts(FALSE, SignExtend(input.value)) :
           LET e == A64_LoadConstantNoClobber(input.r_dest, input.value, undef)
           IN  /\ insns' = e.insns
               /\ data' = e.data
               /\ literal_list_' = e.literal_list_
               /\ ret' = Call("LoadConstantNoClobber", input.r_dest, input.value, e.val)
    /\ UNCHANGED <<ranges, uses, intervals, pass, input, reg_pool_, builder>>

LoadConstNext == LoadConstantNoClobber

SpecLoadConst == LoadConstInit /\ [][LoadConstNext]_vars

(***************************************************************************)
(* The core temporaries.  AllocTemp hands out a temporary that is not in   *)
(* use (which one is the allocator's choice), FreeTemp gives it back.  All *)
(* temporaries of the pool have one width, fixed by the target.            *)
(***************************************************************************)
NumTemps == 2

TempRegs == 1..NumTemps
\* Registers of the callers, none of them a temporary.
BaseReg == NumTemps + 1
DestReg == NumTemps + 2

RegPools == [is_64bit : BOOLEAN, in_use : SUBSET TempRegs \ {TempRegs}]
AllocTemp(pool) == TempRegs \ pool.in_use
TempStorage(pool, reg) == RegStorage(FALSE, pool.is_64bit, reg)
MarkInUse(pool, reg) == [pool EXCEPT !.in_use = @ \cup {reg}]
FreeTemp(pool, reg) == [pool EXCEPT !.in_use = @ \ {reg}]

\* The method under construction together with the register pool.
WithPool(e, pool) ==
    [insns |-> e.insns, data |-> e.data, literal_list_ |-> e.literal_list_,
     val |-> e.val, reg_pool_ |-> pool]
\* LOG(FATAL), a failed CHECK, UNIMPLEMENTED(FATAL): the compiler stops where
\* it is.
Fatal(e) == [e EXCEPT !.val = FatalResult]

\* Mir2Lir::LoadConstant of an int into a temporary that is marked in use.
LoadConstant(r_dest, value, undef) ==
    A64_LoadConstantNoClobber(r_dest, Bits32(value), undef)
\* The undefined bit counts LoadConstant of this value can meet.
UndefinedOfInt(value) == UndefinedCounts(FALSE, SignExtend(Bits32(value)))

(***************************************************************************)
(* LoadBaseIndexed, StoreBaseIndexed                                       *)
(***************************************************************************)
WIDE(opcode) == [opcode EXCEPT !.wide = TRUE]
kA64Brk1d == A64Opcode("kA64Brk1d")

Sizes64 == {"kDouble", "kWord", "k64"}
Sizes32 == {"kSingle", "k32", "kReference"}
SizesHalf == {"kUnsignedHalf", "kSignedHalf"}
SizesByte == {"kUnsignedByte", "kSignedByte"}
OpSize == Sizes64 \cup Sizes32 \cup SizesHalf \cup SizesByte

A64_LoadBaseIndexed(e, r_base, r_index, r_dest, scale, size) ==
    IF r_dest.is_float
    THEN LET opcode == IF r_dest.is_64bit THEN FWIDE(A64Opcode("kA64Ldr4fXxG"))
                       ELSE A64Opcode("kA64Ldr4fXxG")
         IN  NewLIR4(e, opcode, r_dest.reg, r_base.reg, r_index.reg,
                     IF scale # 0 THEN 1 ELSE 0)
    ELSE LET opcode ==
                 CASE size \in Sizes64 -> WIDE(A64Opcode("kA64Ldr4rXxG"))
                   [] size \in Sizes32 -> A64Opcode("kA64Ldr4rXxG")
                   [] size = "kUnsignedHalf" -> A64Opcode("kA64Ldrh4wXxd")
                   [] size = "kSignedHalf" -> A64Opcode("kA64Ldrsh4rXxd")
                   [] size = "kUnsignedByte" -> A64Opcode("kA64Ldrb3wXx")
                   [] size = "kSignedByte" -> A64Opcode("kA64Ldrsb3rXx")
                   [] OTHER -> kA64Brk1d
             expected_scale ==
                 CASE size \in Sizes64 -> 3
                   [] size \in Sizes32 -> 2
                   [] size \in SizesHalf -> 1
                   [] OTHER -> 0
         IN  IF size \notin OpSize
             THEN Fatal(e)
             ELSE IF expected_scale = 0
                  THEN NewLIR3(e, opcode, r_dest.reg, r_base.reg, r_index.reg)
                  ELSE NewLIR4(e, opcode, r_dest.reg, r_base.reg, r_index.reg,
                               IF scale # 0 THEN 1 ELSE 0)

A64_StoreBaseIndexed(e, r_base, r_index, r_src, scale, size) ==
    IF r_src.is_float
    THEN LET opcode == IF r_src.is_64bit THEN FWIDE(A64Opcode("kA64Str4fXxG"))
                       ELSE A64Opcode("kA64Str4fXxG")
         IN  NewLIR4(e, opcode, r_src.reg, r_base.reg, r_index.reg,
                     IF scale # 0 THEN 1 ELSE 0)
    ELSE LET opcode ==
                 CASE size \in Sizes64 -> WIDE(A64Opcode("kA64Str4rXxG"))
                   [] size \in Sizes32 -> A64Opcode("kA64Str4rXxG")
                   [] size \in SizesHalf -> A64Opcode("kA64Strh4wXxd")
                   [] size \in SizesByte -> A64Opcode("kA64Strb3wXx")
                   [] OTHER -> kA64Brk1d
             expected_scale ==
                 CASE size \in Sizes64 -> 3
                   [] size \in Sizes32 -> 2
                   [] size \in SizesHalf -> 1
                   [] OTHER -> 0
         IN  IF size \notin OpSize
             THEN Fatal(e)
             ELSE IF expected_scale = 0
                  THEN NewLIR3(e, opcode, r_src.reg, r_base.reg, r_index.reg)
                  ELSE NewLIR4(e, opcode, r_src.reg, r_base.reg, r_index.reg,
                               IF scale # 0 THEN 1 ELSE 0)

(***************************************************************************)
(* LoadBaseDispBody, StoreBaseDispBody.  displacement is an int: & and >>  *)
(* on a negative one are those of two's complement, that is % and \div of  *)
(* TLA+, which round down.  r_scratch is the temporary AllocTemp hands     *)
(* out, should the long sequence ask for one.                              *)
(***************************************************************************)
IS_SIGNED_IMM9(value) == value >= -256 /\ value < 256

DisplacementIsAligned_Always(displacement, scale) == TRUE
DisplacementIsAligned(displacement, scale) == displacement % (2 ^ scale) = 0

CanUseUnscaled_Unsigned(alt_opcode, displacement) ==
    alt_opcode # kA64Brk1d /\ displacement >= 0 /\ displacement < 256
CanUseUnscaled(alt_opcode, displacement) ==
    alt_opcode # kA64Brk1d /\ IS_SIGNED_IMM9(displacement)

A64_LoadBaseDispBody(r_base, displacement, r_dest, size, r_scratch, undef) ==
    LET scale == CASE size \in Sizes64 -> 3
                   [] size \in Sizes32 -> 2
                   [] size \in SizesHalf -> 1
                   [] OTHER -> 0
        opcode ==
            CASE size \in Sizes64 ->
                     IF r_dest.is_float THEN FWIDE(A64Opcode("kA64Ldr3fXD"))
                     ELSE WIDE(A64Opcode("kA64Ldr3rXD"))
              [] size \in Sizes32 ->
                     IF r_dest.is_float THEN A64Opcode("kA64Ldr3fXD")
                     ELSE A64Opcode("kA64Ldr3rXD")
              [] size = "kUnsignedHalf" -> A64Opcode("kA64Ldrh3wXF")
              [] size = "kSignedHalf" -> A64Opcode("kA64Ldrsh3rXF")
              [] size = "kUnsignedByte" -> A64Opcode("kA64Ldrb3wXd")
              [] size = "kSignedByte" -> A64Opcode("kA64Ldrsb3rXd")
              [] OTHER -> kA64Brk1d
        alt_opcode ==
            IF size \in Sizes64
            THEN IF r_dest.is_float THEN FWIDE(A64Opcode("kA64Ldur3fXd"))
                 ELSE WIDE(A64Opcode("kA64Ldur3rXd"))
            ELSE kA64Brk1d
        scaled_disp == displacement \div (2 ^ scale)
    IN  IF size \notin OpSize
        THEN WithPool(Fatal(Method), reg_pool_)
        ELSE IF /\ DisplacementIsAligned(displacement, scale)
                /\ scaled_disp >= 0
                /\ scaled_disp < 4096
             THEN WithPool(NewLIR3(Method, opcode, r_dest.reg, r_base.reg, scaled_disp),
                           reg_pool_)
             ELSE IF CanUseUnscaled(alt_opcode, displacement)
                  THEN WithPool(NewLIR3(Method, alt_opcode, r_dest.reg, r_base.reg,
                                        displacement),
                                reg_pool_)
                  ELSE LET scratch == TempStorage(reg_pool_, r_scratch)
                           const == LoadConstant(scratch, displacement, undef)
                           load == A64_LoadBaseIndexed(const, r_base, scratch, r_dest,
                                                       0, size)
                       IN  WithPool(load, FreeTemp(MarkInUse(reg_pool_, r_scratch),
                                                   r_scratch))

A64_StoreBaseDispBody(r_base, displacement, r_src, size, r_scratch, undef) ==
    LET scale == CASE size \in Sizes64 -> 3
                   [] size \in Sizes32 -> 2
                   [] size \in SizesHalf -> 1
                   [] OTHER -> 0
        opcode ==
            CASE size \in Sizes64 ->
                     IF r_src.is_float THEN FWIDE(A64Opcode("kA64Str3fXD"))
                     ELSE FWIDE(A64Opcode("kA64Str3rXD"))
              [] size \in Sizes32 ->
                     IF r_src.is_float THEN A64Opcode("kA64Str3fXD")
                     ELSE A64Opcode("kA64Str3rXD")
              [] size \in SizesHalf -> A64Opcode("kA64Strh3wXF")
              [] size \in SizesByte -> A64Opcode("kA64Strb3wXd")
              [] OTHER -> kA64Brk1d
        alt_opcode ==
            IF size \in Sizes64
            THEN IF r_src.is_float THEN FWIDE(A64Opcode("kA64Stur3fXd"))
                 ELSE FWIDE(A64Opcode("kA64Stur3rXd"))
            ELSE kA64Brk1d
        scaled_disp == displacement \div (2 ^ scale)
    IN  IF size \notin OpSize
        THEN WithPool(Fatal(Method), reg_pool_)
        ELSE IF /\ DisplacementIsAligned(displacement, scale)
                /\ scaled_disp >= 0
                /\ scaled_disp < 4096
             THEN WithPool(NewLIR3(Method, opcode, r_src.reg, r_base.reg, scaled_disp),
                           reg_pool_)
             ELSE IF CanUseUnscaled(alt_opcode, displacement)
                  THEN WithPool(NewLIR3(Method, alt_opcode, r_src.reg, r_base.reg,
                                        displacement),
                                reg_pool_)
                  ELSE LET scratch == TempStorage(reg_pool_, r_scratch)
                           const == LoadConstant(scratch, displacement, undef)
                           store == A64_StoreBaseIndexed(const, r_base, scratch, r_src,
                                                         0, size)
                       IN  WithPool(store, FreeTemp(MarkInUse(reg_pool_, r_scratch),
                                                    r_scratch))

\* The displacements around every limit of the three forms.
Displacements ==
    (-260..-250) \cup (-10..10) \cup (250..260) \cup (4090..4100)
        \cup (8185..8195) \cup (16375..16390) \cup (32755..32770)
        \cup {-4096, 65535, 65536, 1048576, -65536}
\* The registers a value of a size is held in.
RegsOfSize(size) ==
    CASE size \in Sizes64 -> {RegStorage(FALSE, TRUE, DestReg), RegStorage(TRUE, TRUE, DestReg)}
      [] size \in Sizes32 -> {RegStorage(FALSE, FALSE, DestReg), RegStorage(TRUE, FALSE, DestReg)}
      [] OTHER -> {RegStorage(FALSE, FALSE, DestReg)}

\* The outcome of a call becomes the state of the method.
Return(op, e) ==
    /\ insns' = e.insns
    /\ data' = e.data
    /\ literal_list_' = e.literal_list_
    /\ reg_pool_' = e.reg_pool_
    /\ ret' = Call(op, nullptr, input, e.val)
    /\ UNCHANGED <<ranges, uses, intervals, pass, input, builder>>

MemInit ==
    /\ EmptyMethod
    /\ reg_pool_ \in RegPools
    /\ \E op \in {"LoadBaseDispBody", "StoreBaseDispBody"}, size \in OpSize,
          displacement \in Displacements :
           \E r_dest \in RegsOfSize(size) :
               input = [op |-> op, r_base |-> RegStorage(FALSE, TRUE, BaseReg),
                        displacement |-> displacement, r_dest |-> r_dest, size |-> size]

LoadBaseDispBody ==
    /\ input.op = "LoadBaseDispBody"
    /\ ret = NoCall
    /\ \E r_scratch \in AllocTemp(reg_pool_), undef \in UndefinedOfInt(input.displacement) :
           Return("LoadBaseDispBody",
                  A64_LoadBaseDispBody(input.r_base, input.displacement, input.r_dest,
                                       input.size, r_scratch, undef))

StoreBaseDispBody ==
    /\ input.op = "StoreBaseDispBody"
    /\ ret = NoCall
    /\ \E r_scratch \in AllocTemp(reg_pool_), undef \in UndefinedOfInt(input.displacement) :
           Return("StoreBaseDispBody",
                  A64_StoreBaseDispBody(input.r_base, input.displacement, input.r_dest,
                                        input.size, r_scratch, undef))

MemNext == LoadBaseDispBody \/ StoreBaseDispBody

SpecMem == MemInit /\ [][MemNext]_vars

(***************************************************************************)
(* OpRegRegShift, OpRegReg, OpRegRegRegShift: register operands.  e is the *)
(* method and the register pool as the caller left them.                   *)
(***************************************************************************)
\* opcode | wide
Widen(opcode, is_wide) == [opcode EXCEPT !.wide = is_wide]
\* EncodingMap[opcode].flags & IS_QUAD_OP, IS_BINARY_OP; field_loc[2].kind is
\* kFmtShift.  The digit of an opcode's name is its number of operands.
IsQuadOp(opcode) ==
    opcode.name \in {"kA64Add4rrro", "kA64Sub4rrro", "kA64And4rrro", "kA64Eor4rrro",
                     "kA64Orr4rrro", "kA64Add4RRdT", "kA64Sub4RRdT"}
IsBinaryOp(opcode) == opcode.name \in {"kA64Mov2rr", "kA64Mvn2rr"}
IsShiftOp(opcode) ==
    opcode.name \in {"kA64Cmn3rro", "kA64Cmp3rro", "kA64Neg3rro", "kA64Tst3rro"}

OpKind ==
    {"kOpMov", "kOpCmn", "kOpBic", "kOpCmp", "kOpLsl", "kOpLsr", "kOpAsr", "kOpRor",
     "kOpNot", "kOpAnd", "kOpOr", "kOpXor", "kOpNeg", "kOpAdd", "kOpAdc", "kOpSub",
     "kOpSbc", "kOpRsub", "kOpMul", "kOpDiv", "kOpRem", "kOpTst", "kOpRev", "kOpRevsh",
     "kOpMvn", "kOp2Char", "kOp2Short", "kOp2Byte"}

A64_OpRegRegRegShift(e, op, r_dest, r_src1, r_src2, shift) ==
    LET opcode ==
            CASE op = "kOpAdd" -> A64Opcode("kA64Add4rrro")
              [] op = "kOpSub" -> A64Opcode("kA64Sub4rrro")
              [] op = "kOpAdc" -> A64Opcode("kA64Adc3rrr")
              [] op = "kOpAnd" -> A64Opcode("kA64And4rrro")
              [] op = "kOpXor" -> A64Opcode("kA64Eor4rrro")
              [] op = "kOpMul" -> A64Opcode("kA64Mul3rrr")
              [] op = "kOpDiv" -> A64Opcode("kA64Sdiv3rrr")
              [] op = "kOpOr" -> A64Opcode("kA64Orr4rrro")
              [] op = "kOpSbc" -> A64Opcode("kA64Sbc3rrr")
              [] op = "kOpLsl" -> A64Opcode("kA64Lsl3rrr")
              [] op = "kOpLsr" -> A64Opcode("kA64Lsr3rrr")
              [] op = "kOpAsr" -> A64Opcode("kA64Asr3rrr")
              [] op = "kOpRor" -> A64Opcode("kA64Ror3rrr")
              [] OTHER -> kA64Brk1d
        widened_opcode == Widen(opcode, r_dest.is_64bit)
    IN  IF opcode = kA64Brk1d
        THEN Fatal(e)
        ELSE IF r_dest.is_64bit # r_src1.is_64bit \/ r_dest.is_64bit # r_src2.is_64bit
             THEN Fatal(e)
             ELSE IF IsQuadOp(opcode)
                  THEN NewLIR4(e, widened_opcode, r_dest.reg, r_src1.reg, r_src2.reg, shift)
                  ELSE NewLIR3(e, widened_opcode, r_dest.reg, r_src1.reg, r_src2.reg)

A64_OpRegRegShift(e, op, r_dest_src1, r_src2, shift) ==
    LET is_wide == r_dest_src1.is_64bit
        opcode ==
            CASE op = "kOpCmn" -> A64Opcode("kA64Cmn3rro")
              [] op = "kOpCmp" -> A64Opcode("kA64Cmp3rro")
              [] op = "kOpMov" -> A64Opcode("kA64Mov2rr")
              [] op = "kOpMvn" -> A64Opcode("kA64Mvn2rr")
              [] op = "kOpNeg" -> A64Opcode("kA64Neg3rro")
              [] op = "kOpTst" -> A64Opcode("kA64Tst3rro")
              [] OTHER -> kA64Brk1d
    IN  IF r_dest_src1.is_64bit # r_src2.is_64bit
        THEN Fatal(e)
        ELSE CASE op = "kOpRev" ->
                      NewLIR3(e, Widen(A64Opcode("kA64Rev2rr"), is_wide), r_dest_src1.reg,
                              r_src2.reg, r_src2.reg)
               [] op = "kOpRevsh" ->
                      NewLIR3(e, Widen(A64Opcode("kA64Rev162rr"), is_wide), r_dest_src1.reg,
                              r_src2.reg, r_src2.reg)
               [] op = "kOp2Byte" ->
                      NewLIR4(e, Widen(A64Opcode("kA64Sbfm4rrdd"), is_wide), r_dest_src1.reg,
                              r_src2.reg, 0, 7)
               [] op = "kOp2Short" ->
                      NewLIR4(e, Widen(A64Opcode("kA64Sbfm4rrdd"), is_wide), r_dest_src1.reg,
                              r_src2.reg, 0, 15)
               [] op = "kOp2Char" ->
                      NewLIR4(e, Widen(A64Opcode("kA64Ubfm4rrdd"), is_wide), r_dest_src1.reg,
                              r_src2.reg, 0, 15)
               [] opcode # kA64Brk1d ->
                      IF IsBinaryOp(opcode)
                      THEN EmitLIR(e, RawLIR(Widen(opcode, is_wide), r_dest_src1.reg,
                                             r_src2.reg, 0, 0, 0, nullptr))
                      ELSE IF IsShiftOp(opcode)
                           THEN NewLIR3(e, Widen(opcode, is_wide), r_dest_src1.reg,
                                        r_src2.reg, shift)
                           ELSE Fatal(e)
               [] OTHER ->
                      A64_OpRegRegRegShift(e, op, r_dest_src1, r_dest_src1, r_src2, shift)

\* ENCODE_NO_SHIFT is 0.
A64_OpRegReg(e, op, r_dest_src1, r_src2) ==
    A64_OpRegRegShift(e, op, r_dest_src1, r_src2, 0)

(***************************************************************************)
(* OpRegRegImm, OpRegImm64: an immediate operand.  value is an int (the    *)
(* model keeps the int64_t of OpRegImm64 in the range of int, as OpRegImm  *)
(* passes it).  undef is the undefined bit count of the call's             *)
(* EncodeLogicalImmediate, undef_const that of LoadConstant's.             *)
(***************************************************************************)
Abs(value) == IF value < 0 THEN -value ELSE value
IsImm12(abs_value) == abs_value < 4096
IsShiftedImm12(abs_value) == abs_value % 4096 = 0 /\ abs_value \div 4096 < 4096

A64_OpRegRegImm(op, r_dest, r_src1, value, r_scratch, undef, undef_const) ==
    LET e == WithPool(Method, reg_pool_)
        is_wide == r_dest.is_64bit
        abs_value == Abs(value)
        \* kOpAdd: neg = !neg
        neg == IF op = "kOpAdd" THEN ~(value < 0) ELSE value < 0
        max_value == IF is_wide THEN 64 ELSE 32
        logical == op \in {"kOpOr", "kOpAnd", "kOpXor"}
        log_imm == IF logical
                   THEN EncodeLogicalImmediate(is_wide, SignExtend(Bits32(value)), undef)
                   ELSE -1
        opcode == CASE op = "kOpOr" -> kA64Orr3Rrl
                    [] op = "kOpAnd" -> A64Opcode("kA64And3Rrl")
                    [] op = "kOpXor" -> A64Opcode("kA64Eor3Rrl")
                    [] OTHER -> kA64Brk1d
        alt_opcode ==
            CASE op \in {"kOpAdd", "kOpSub"} ->
                     IF neg THEN A64Opcode("kA64Add4rrro") ELSE A64Opcode("kA64Sub4rrro")
              [] op = "kOpAdc" -> A64Opcode("kA64Adc3rrr")
              [] op = "kOpSbc" -> A64Opcode("kA64Sbc3rrr")
              [] op = "kOpOr" -> A64Opcode("kA64Orr4rrro")
              [] op = "kOpAnd" -> A64Opcode("kA64And4rrro")
              [] op = "kOpXor" -> A64Opcode("kA64Eor4rrro")
              [] op = "kOpMul" -> A64Opcode("kA64Mul3rrr")
              [] OTHER -> kA64Brk1d
        addsub == IF neg THEN A64Opcode("kA64Add4RRdT") ELSE A64Opcode("kA64Sub4RRdT")
    IN  IF r_dest.is_64bit # r_src1.is_64bit
        THEN Fatal(e)
        ELSE CASE op = "kOpLsl" ->
                      NewLIR4(e, Widen(A64Opcode("kA64Ubfm4rrdd"), is_wide), r_dest.reg,
                              r_src1.reg, (-value) % max_value, max_value - value)
               [] op = "kOpLsr" ->
                      NewLIR3(e, Widen(A64Opcode("kA64Lsr3rrd"), is_wide), r_dest.reg,
                              r_src1.reg, value)
               [] op = "kOpAsr" ->
                      NewLIR3(e, Widen(A64Opcode("kA64Asr3rrd"), is_wide), r_dest.reg,
                              r_src1.reg, value)
               [] op = "kOpRor" ->
                      NewLIR4(e, Widen(A64Opcode("kA64Extr4rrrd"), is_wide), r_dest.reg,
                              r_src1.reg, r_src1.reg, value)
               [] op \in {"kOpAdd", "kOpSub"} /\ IsImm12(abs_value) ->
                      NewLIR4(e, Widen(addsub, is_wide), r_dest.reg, r_src1.reg,
                              abs_value, 0)
               [] op \in {"kOpAdd", "kOpSub"} /\ ~IsImm12(abs_value)
                                              /\ IsShiftedImm12(abs_value) ->
                      NewLIR4(e, Widen(addsub, is_wide), r_dest.reg, r_src1.reg,
                              abs_value \div 4096, 1)
               [] OTHER ->
                      IF alt_opcode = kA64Brk1d
                      THEN Fatal(e)
                      ELSE IF log_imm >= 0
                           THEN NewLIR3(e, Widen(opcode, is_wide), r_dest.reg, r_src1.reg,
                                        log_imm)
                           ELSE LET scratch == TempStorage(reg_pool_, r_scratch)
                                    const == WithPool(LoadConstant(scratch, value, undef_const),
                                                      MarkInUse(reg_pool_, r_scratch))
                                    res == IF IsQuadOp(alt_opcode)
                                           THEN NewLIR4(const, alt_opcode, r_dest.reg,
                                                        r_src1.reg, scratch.reg, 0)
                                           ELSE NewLIR3(const, alt_opcode, r_dest.reg,
                                                        r_src1.reg, scratch.reg)
                                IN  [res EXCEPT !.reg_pool_ = FreeTemp(@, r_scratch)]

A64_OpRegImm64(op, r_dest_src1, value, r_tmp, undef_const) ==
    LET e == WithPool(Method, reg_pool_)
        is_wide == r_dest_src1.is_64bit
        neg == value < 0
        shift == ~IsImm12(Abs(value))
        abs_value == IF shift THEN Abs(value) \div 4096 ELSE Abs(value)
        opcode == CASE op = "kOpAdd" -> A64Opcode("kA64Add4RRdT")
                    [] op = "kOpSub" -> A64Opcode("kA64Sub4RRdT")
                    [] op = "kOpCmp" -> A64Opcode("kA64Cmp3RdT")
                    [] OTHER -> kA64Brk1d
        neg_opcode == CASE op = "kOpAdd" -> A64Opcode("kA64Sub4RRdT")
                        [] op = "kOpSub" -> A64Opcode("kA64Add4RRdT")
                        [] op = "kOpCmp" -> A64Opcode("kA64Cmn3RdT")
                        [] OTHER -> kA64Brk1d
        chosen == IF neg THEN neg_opcode ELSE opcode
    IN  IF ~IsImm12(Abs(value)) /\ ~IsShiftedImm12(Abs(value))
        THEN LET tmp == TempStorage(reg_pool_, r_tmp)
                 res == WithPool(LoadConstant(tmp, value, undef_const),
                                 MarkInUse(reg_pool_, r_tmp))
                 last == A64_OpRegReg(res, op, r_dest_src1, tmp)
             IN  IF last.val = FatalResult
                 THEN last
                 ELSE [last EXCEPT !.reg_pool_ = FreeTemp(@, r_tmp), !.val = res.val]
        ELSE IF opcode = kA64Brk1d
             THEN Fatal(e)
             ELSE IF IsQuadOp(chosen)
                  THEN NewLIR4(e, Widen(chosen, is_wide), r_dest_src1.reg, r_dest_src1.reg,
                               abs_value, IF shift THEN 1 ELSE 0)
                  ELSE NewLIR3(e, Widen(chosen, is_wide), r_dest_src1.reg, abs_value,
                               IF shift THEN 1 ELSE 0)

\* The immediates around every limit of the compact forms, and some with none.
ImmValues ==
    (-5..5) \cup {31, 32, 33, 63, 64, 255, 256, 4095, 4096, 4097, 8192, 65535, 65536,
                  74565, 16773120, 16773121, 16777216, 252645135, 2147483647,
                  -31, -4095, -4096, -4097, -74565, -16773120, -16777216, -65536}
ImmOps ==
    {"kOpLsl", "kOpLsr", "kOpAsr", "kOpRor", "kOpAdd", "kOpSub", "kOpAdc", "kOpSbc",
     "kOpOr", "kOpAnd", "kOpXor", "kOpMul"}

ImmInit ==
    /\ EmptyMethod
    /\ reg_pool_ \in RegPools
    /\ \E value \in ImmValues, is_64bit \in BOOLEAN :
           \/ \E op \in ImmOps :
                  input = [op |-> "OpRegRegImm", kind |-> op,
                           r_dest |-> RegStorage(FALSE, is_64bit, DestReg),
                           r_src1 |-> RegStorage(FALSE, is_64bit, BaseReg),
                           value |-> value]
           \/ \E op \in {"kOpAdd", "kOpSub", "kOpCmp"} :
                  input = [op |-> "OpRegImm64", kind |-> op,
                           r_dest_src1 |-> RegStorage(FALSE, is_64bit, DestReg),
                           value |-> value]

OpRegRegImm ==
    /\ input.op = "OpRegRegImm"
    /\ ret = NoCall
    /\ \E r_scratch \in AllocTemp(reg_pool_),
          undef \in UndefinedCounts(input.r_dest.is_64bit, SignExtend(Bits32(input.value))),
          undef_const \in UndefinedOfInt(input.value) :
           Return("OpRegRegImm",
                  A64_OpRegRegImm(input.kind, input.r_dest, input.r_src1, input.value,
                                  r_scratch, undef, undef_const))

OpRegImm64 ==
    /\ input.op = "OpRegImm64"
    /\ ret = NoCall
    /\ \E r_tmp \in AllocTemp(reg_pool_), undef_const \in UndefinedOfInt(input.value) :
           Return("OpRegImm64",
                  A64_OpRegImm64(input.kind, input.r_dest_src1, input.value, r_tmp,
                                 undef_const))

OpsInit == MemInit \/ ImmInit

OpsNext == MemNext \/ OpRegRegImm \/ OpRegImm64

SpecOps == OpsInit /\ [][OpsNext]_vars

(***************************************************************************)
(* The operations this target does not implement: OpFpRegCopy, OpThreadMem *)
(* (both overloads), OpMem, StoreBaseIndexedDisp, OpRegMem,                *)
(* LoadBaseIndexedDisp, OpMovRegMem, OpMovMemReg, OpCondRegReg.  Each is   *)
(* LOG(FATAL) or UNIMPLEMENTED(FATAL) and nothing else.  They are called   *)
(* on a method that is empty or holds a constant load, unless the compiler *)
(* has stopped.                                                            *)
(***************************************************************************)
\* The compiler has not stopped.
Running == ret.val # FatalResult

\* The outcome e of a call with these arguments becomes the state.
Respond(op, args, e) ==
    /\ insns' = e.insns
    /\ data' = e.data
    /\ literal_list_' = e.literal_list_
    /\ reg_pool_' = e.reg_pool_
    /\ ret' = Call(op, nullptr, args, e.val)
    /\ UNCHANGED <<ranges, uses, intervals, pass, input, builder>>

AnyReg == {RegStorage(is_float, is_64bit, DestReg) : is_float, is_64bit \in BOOLEAN}
CoreRegs == {RegStorage(FALSE, is_64bit, BaseReg) : is_64bit \in BOOLEAN}
Offsets == {-8, 0, 4}
Scales == {0, 2}
ConditionCode == {"kCondEq", "kCondNe", "kCondLt", "kCondGe"}
MoveType == {"kMov8GP", "kMov32GP", "kMov64GP", "kMov32FP", "kMov64FP"}

OpFpRegCopy_Fmov ==
    /\ Running
    /\ \E r_dest, r_src \in AnyReg :
           Respond("OpFpRegCopy", [r_dest |-> r_dest, r_src |-> r_src],
                   WithPool(EmitLIR(Method, RawLIR(A64Opcode("kA64Fmov2ff"), r_dest.reg,
                                                   r_src.reg, 0, 0, 0, nullptr)),
                            reg_pool_))

OpFpRegCopy ==
    /\ Running
    /\ \E r_dest, r_src \in AnyReg :
           Respond("OpFpRegCopy", [r_dest |-> r_dest, r_src |-> r_src],
                   Fatal(WithPool(Method, reg_pool_)))

OpThreadMem4 ==
    /\ Running
    /\ \E op \in OpKind, thread_offset \in Offsets :
           Respond("OpThreadMem", [kind |-> op, thread_offset |-> thread_offset, pointer_size |-> 4],
                   Fatal(WithPool(Method, reg_pool_)))

OpThreadMem8 ==
    /\ Running
    /\ \E op \in OpKind, thread_offset \in Offsets :
           Respond("OpThreadMem", [kind |-> op, thread_offset |-> thread_offset, pointer_size |-> 8],
                   Fatal(WithPool(Method, reg_pool_)))

OpMem ==
    /\ Running
    /\ \E op \in OpKind, r_base \in CoreRegs, disp \in Offsets :
           Respond("OpMem", [kind |-> op, r_base |-> r_base, disp |-> disp],
                   Fatal(WithPool(Method, reg_pool_)))

StoreBaseIndexedDisp ==
    /\ Running
    /\ \E r_base, r_index \in CoreRegs, scale \in Scales, displacement \in Offsets,
          r_src \in AnyReg, size \in OpSize :
           Respond("StoreBaseIndexedDisp",
                   [r_base |-> r_base, r_index |-> r_index, scale |-> scale,
                    displacement |-> displacement, r_src |-> r_src, size |-> size],
                   Fatal(WithPool(Method, reg_pool_)))

OpRegMem ==
    /\ Running
    /\ \E op \in OpKind, r_dest \in AnyReg, r_base \in CoreRegs, offset \in Offsets :
           Respond("OpRegMem",
                   [kind |-> op, r_dest |-> r_dest, r_base |-> r_base, offset |-> offset],
                   Fatal(WithPool(Method, reg_pool_)))

LoadBaseIndexedDisp ==
    /\ Running
    /\ \E r_base, r_index \in CoreRegs, scale \in Scales, displacement \in Offsets,
          r_dest \in AnyReg, size \in OpSize :
           Respond("LoadBaseIndexedDisp",
                   [r_base |-> r_base, r_index |-> r_index, scale |-> scale,
                    displacement |-> displacement, r_dest |-> r_dest, size |-> size],
                   Fatal(WithPool(Method, reg_pool_)))

OpMovRegMem ==
    /\ Running
    /\ \E r_dest \in AnyReg, r_base \in CoreRegs, offset \in Offsets, move_type \in MoveType :
           Respond("OpMovRegMem",
                   [r_dest |-> r_dest, r_base |-> r_base, offset |-> offset,
                    move_type |-> move_type],
                   Fatal(WithPool(Method, reg_pool_)))

OpMovMemReg ==
    /\ Running
    /\ \E r_base \in CoreRegs, offset \in Offsets, r_src \in AnyReg, move_type \in MoveType :
           Respond("OpMovMemReg",
                   [r_base |-> r_base, offset |-> offset, r_src |-> r_src,
                    move_type |-> move_type],
                   Fatal(WithPool(Method, reg_pool_)))

OpCondRegReg ==
    /\ Running
    /\ \E op \in OpKind, cc \in ConditionCode, r_dest, r_src \in AnyReg :
           Respond("OpCondRegReg", [kind |-> op, cc |-> cc, r_dest |-> r_dest, r_src |-> r_src],
                   Fatal(WithPool(Method, reg_pool_)))

UnimplementedInit ==
    /\ EncInit
    /\ \E value \in {{}, {0} \cup (16..31), {2, 4, 5, 9, 12, 17}} :
           input = [op |-> "LoadConstantNoClobber", r_dest |-> RegStorage(FALSE, FALSE, 0),
                    value |-> value]

UnimplementedNext ==
    \/ LoadConstantNoClobber
    \/ OpFpRegCopy
    \/ OpThreadMem4
    \/ OpThreadMem8
    \/ OpMem
    \/ StoreBaseIndexedDisp
    \/ OpRegMem
    \/ LoadBaseIndexedDisp
    \/ OpMovRegMem
    \/ OpMovMemReg
    \/ OpCondRegReg

SpecUnimplemented == UnimplementedInit /\ [][UnimplementedNext]_vars

(***************************************************************************)
(* HGraphBuilder.  HBasicBlock and HInstruction objects are cells of two   *)
(* arenas, builder.blocks and builder.instructions; the HGraph is          *)
(* builder.graph, and builder.graph_ points to it once it is allocated.    *)
(* An operator that models a method takes the builder b and gives the      *)
(* builder the method leaves, its result in b.val.                         *)
(***************************************************************************)
MaxCode == 3
NumVRegs == 3

\* A dex instruction: its opcode, its vA, vB and vC fields (a register, a
\* literal, a method index or an argument count, by format), and the
\* relative offset of its branch target in code units.
Instruction(opcode, vA, vB, vC, target_offset) ==
    [opcode |-> opcode, vA |-> vA, vB |-> vB, vC |-> vC, target_offset |-> target_offset]

\* Instruction::SizeInCodeUnits, by the format of the opcode.
SizeInCodeUnits(instruction) ==
    CASE instruction.opcode \in {"NOP", "MOVE", "RETURN_VOID", "RETURN", "RETURN_OBJECT",
                                 "CONST_4", "GOTO", "ADD_INT_2ADDR", "SUB_INT_2ADDR",
                                 "MONITOR_ENTER"} -> 1
      [] instruction.opcode \in {"GOTO_32", "INVOKE_STATIC", "INVOKE_DIRECT",
                                 "INVOKE_STATIC_RANGE", "INVOKE_DIRECT_RANGE",
                                 "INVOKE_VIRTUAL"} -> 3
      [] OTHER -> 2
\* Instruction::IsBranch: the goto and if instructions.
IsBranch(instruction) ==
    instruction.opcode \in {"GOTO", "GOTO_16", "GOTO_32", "IF_EQ", "IF_NE", "IF_LT", "IF_GE"}

\* The offset in code units of the k-th instruction of a body; that of
\* k = Len(insns) + 1 is insns_size_in_code_units_.
RECURSIVE OffsetOf(_, _)
OffsetOf(insns_, k) ==
    IF k <= 1 THEN 0 ELSE OffsetOf(insns_, k - 1) + SizeInCodeUnits(insns_[k - 1])

\* The first character of the return type of a method of the dex file.
ReturnDescriptor(method_idx) == IF method_idx = 0 THEN "V" ELSE "I"

HBasicBlock ==
    [block_id |-> -1, instructions |-> <<>>, successors |-> <<>>, predecessors |-> <<>>]
HInstruction(kind, inputs, value) ==
    [kind |-> kind, inputs |-> inputs, value |-> value, block |-> nullptr]
HGraph == [blocks_ |-> <<>>, entry_block_ |-> nullptr, exit_block_ |-> nullptr]

\* new (arena_) HBasicBlock(graph_)
NewBlock(b) == [b EXCEPT !.blocks = Append(@, HBasicBlock), !.val = Len(b.blocks) + 1]
\* HGraph::AddBlock: the id of a block is its rank in the graph.
AddBlock(b, block) ==
    [b EXCEPT !.blocks[block].block_id = Len(b.graph.blocks_),
              !.graph.blocks_ = Append(@, block)]
\* HBasicBlock::AddInstruction of a new instruction.
AddInstruction(b, block, instruction) ==
    [b EXCEPT !.instructions = Append(@, [instruction EXCEPT !.block = block]),
              !.blocks[block].instructions = Append(@, Len(b.instructions) + 1),
              !.val = Len(b.instructions) + 1]
GetLastInstruction(b, block) ==
    b.blocks[block].instructions[Len(b.blocks[block].instructions)]
AddSuccessor(b, block, successor) ==
    [b EXCEPT !.blocks[block].successors = Append(@, successor),
              !.blocks[successor].predecessors = Append(@, block)]

HGraphBuilder ==
    [pc |-> "BuildGraph", blocks |-> <<>>, instructions |-> <<>>,
     graph_ |-> nullptr, graph |-> HGraph,
     entry_block_ |-> nullptr, exit_block_ |-> nullptr, current_block_ |-> nullptr,
     branch_targets_ |-> <<>>, locals_ |-> <<>>,
     constant0_ |-> nullptr, constant1_ |-> nullptr,
     code_ptr |-> 1, dex_offset |-> 0, val |-> nullptr]

RECURSIVE InitializeLocalsFrom(_, _, _)
InitializeLocalsFrom(b, i, count) ==
    IF i >= count
    THEN b
    ELSE LET local == AddInstruction(b, b.entry_block_, HInstruction("HLocal", <<>>, i))
         IN  InitializeLocalsFrom([local EXCEPT !.locals_ = Append(@, local.val)],
                                  i + 1, count)
InitializeLocals(b, count) == InitializeLocalsFrom(b, 0, count)

GetLocalAt(b, register_index) == b.locals_[register_index + 1]

UpdateLocal(b, register_index, instruction) ==
    AddInstruction(b, b.current_block_,
                   HInstruction("HStoreLocal", <<GetLocalAt(b, register_index), instruction>>,
                                nullptr))

LoadLocal(b, register_index) ==
    AddInstruction(b, b.current_block_,
                   HInstruction("HLoadLocal", <<GetLocalAt(b, register_index)>>, nullptr))

\* One parameter: its HParameterValue, stored in the local the code uses.
BindParameter(b, parameter_index, locals_index) ==
    LET parameter == AddInstruction(b, b.entry_block_,
                                    HInstruction("HParameterValue", <<>>, parameter_index))
    IN  AddInstruction(parameter, b.entry_block_,
                       HInstruction("HStoreLocal",
                                    <<GetLocalAt(b, locals_index), parameter.val>>, nullptr))

\* The loop of InitializeParameters; shorty[pos] is the character after pos
\* others.
RECURSIVE InitializeParametersFrom(_, _, _, _, _, _, _)
InitializeParametersFrom(b, shorty, pos, i, number_of_parameters, parameter_index,
                         locals_index) ==
    IF i >= number_of_parameters
    THEN [b EXCEPT !.val = TRUE]
    ELSE IF shorty[pos + 1] \in {"F", "D", "J"}
         THEN [b EXCEPT !.val = FALSE]
         ELSE InitializeParametersFrom(BindParameter(b, parameter_index, locals_index),
                                       shorty, pos + 1, i + 1, number_of_parameters,
                                       parameter_index + 1, locals_index + 1)

InitializeParameters_AnyType(b, unit, number_of_parameters) == [b EXCEPT !.val = TRUE]
InitializeParameters(b, unit, number_of_parameters) ==
    IF unit.dex_compilation_unit_ = nullptr
    THEN [b EXCEPT !.val = TRUE]
    ELSE LET locals_index == Len(b.locals_) - number_of_parameters
         IN  IF ~unit.is_static
             THEN InitializeParametersFrom(BindParameter(b, 0, locals_index), unit.shorty,
                                           1, 0, number_of_parameters - 1, 1,
                                           locals_index + 1)
             ELSE InitializeParametersFrom(b, unit.shorty, 1, 0, number_of_parameters, 0,
                                           locals_index)

CanHandleCodeItem_Always(code_item) == TRUE
CanHandleCodeItem(code_item) == ~(code_item.tries_size_ > 0)

FindBlockStartingAt(b, index) == b.branch_targets_[index + 1]

\* branch_targets_.Put(index, a new block), unless a block starts there.
EnsureBlockAt(b, index) ==
    IF FindBlockStartingAt(b, index) = nullptr
    THEN LET block == NewBlock(b)
         IN  [block EXCEPT !.branch_targets_[index + 1] = block.val]
    ELSE b

\* The loop of ComputeBranchTargets, at the k-th instruction.
RECURSIVE ComputeBranchTargetsFrom(_, _, _, _)
ComputeBranchTargetsFrom(b, insns_, k, dex_offset) ==
    IF k > Len(insns_)
    THEN b
    ELSE LET instruction == insns_[k]
             next == dex_offset + SizeInCodeUnits(instruction)
         IN  IF IsBranch(instruction)
             THEN LET target == instruction.target_offset + dex_offset
                      targeted == EnsureBlockAt(b, target)
                  IN  ComputeBranchTargetsFrom(
                          IF k < Len(insns_) THEN EnsureBlockAt(targeted, next) ELSE targeted,
                          insns_, k + 1, next)
             ELSE ComputeBranchTargetsFrom(b, insns_, k + 1, next)

ComputeBranchTargets_Unlinked(b, insns_) ==
    LET sized == [b EXCEPT !.branch_targets_ =
                               [i \in 1..OffsetOf(insns_, Len(insns_) + 1) |-> nullptr]]
        block == NewBlock(sized)
    IN  ComputeBranchTargetsFrom([block EXCEPT !.branch_targets_[1] = block.val],
                                 insns_, 1, 0)
ComputeBranchTargets(b, insns_) ==
    LET sized == [b EXCEPT !.branch_targets_ =
                               [i \in 1..OffsetOf(insns_, Len(insns_) + 1) |-> nullptr]]
        block == NewBlock(sized)
        first == [block EXCEPT !.branch_targets_[1] = block.val]
    IN  ComputeBranchTargetsFrom(AddSuccessor(first, first.entry_block_, block.val),
                                 insns_, 1, 0)

MaybeUpdateCurrentBlock_NoGoto(b, index) ==
    LET block == FindBlockStartingAt(b, index)
    IN  IF block = nullptr
        THEN b
        ELSE [AddBlock(b, block) EXCEPT !.current_block_ = block]
MaybeUpdateCurrentBlock(b, index) ==
    LET block == FindBlockStartingAt(b, index)
        closed == IF b.current_block_ # nullptr
                  THEN AddSuccessor(AddInstruction(b, b.current_block_,
                                                   HInstruction("HGoto", <<>>, nullptr)),
                                    b.current_block_, block)
                  ELSE b
    IN  IF block = nullptr
        THEN b
        ELSE [AddBlock(closed, block) EXCEPT !.current_block_ = block]

GetConstant0(b) ==
    IF b.constant0_ # nullptr
    THEN [b EXCEPT !.val = b.constant0_]
    ELSE LET constant == AddInstruction(b, b.entry_block_,
                                        HInstruction("HIntConstant", <<>>, 0))
         IN  [constant EXCEPT !.constant0_ = constant.val]

GetConstant1(b) ==
    IF b.constant1_ # nullptr
    THEN [b EXCEPT !.val = b.constant1_]
    ELSE LET constant == AddInstruction(b, b.entry_block_,
                                        HInstruction("HIntConstant", <<>>, 1))
         IN  [constant EXCEPT !.constant1_ = constant.val]

GetConstant_NoCache(b, constant) ==
    AddInstruction(b, b.entry_block_, HInstruction("HIntConstant", <<>>, constant))
GetConstant(b, constant) ==
    CASE constant = 0 -> GetConstant0(b)
      [] constant = 1 -> GetConstant1(b)
      [] OTHER -> AddInstruction(b, b.entry_block_,
                                 HInstruction("HIntConstant", <<>>, constant))

\* the if with the edge to the fall-through block added first
If_22t_FallThroughFirst(b, T, instruction, dex_offset, is_not) ==
    LET first == LoadLocal(b, instruction.vA)
        second == LoadLocal(first, instruction.vB)
        compare == AddInstruction(second, b.current_block_,
                                  HInstruction(T, <<first.val, second.val>>, nullptr))
        negated == IF is_not
                   THEN AddInstruction(compare, b.current_block_,
                                       HInstruction("HNot", <<compare.val>>, nullptr))
                   ELSE compare
        branch == AddInstruction(negated, b.current_block_,
                                 HInstruction("HIf", <<negated.val>>, nullptr))
        next == AddSuccessor(branch, b.current_block_,
                             FindBlockStartingAt(b, dex_offset + SizeInCodeUnits(instruction)))
        both == AddSuccessor(next, b.current_block_,
                             FindBlockStartingAt(b, instruction.target_offset + dex_offset))
    IN  [both EXCEPT !.current_block_ = nullptr]

\* T is HEqual.
If_22t(b, T, instruction, dex_offset, is_not) ==
    LET first == LoadLocal(b, instruction.vA)
        second == LoadLocal(first, instruction.vB)
        compare == AddInstruction(second, b.current_block_,
                                  HInstruction(T, <<first.val, second.val>>, nullptr))
        negated == IF is_not
                   THEN AddInstruction(compare, b.current_block_,
                                       HInstruction("HNot", <<compare.val>>, nullptr))
                   ELSE compare
        branch == AddInstruction(negated, b.current_block_,
                                 HInstruction("HIf", <<negated.val>>, nullptr))
        taken == AddSuccessor(branch, b.current_block_,
                              FindBlockStartingAt(b, instruction.target_offset + dex_offset))
        both == AddSuccessor(taken, b.current_block_,
                             FindBlockStartingAt(b, dex_offset + SizeInCodeUnits(instruction)))
    IN  [both EXCEPT !.current_block_ = nullptr]

\* T is HAdd or HSub; the type of the operation is Primitive::kPrimInt.
Binop(b, T, first, second, vA) ==
    LET operation == AddInstruction(b, b.current_block_,
                                    HInstruction(T, <<first, second>>, nullptr))
    IN  UpdateLocal(operation, vA, operation.val)

Binop_32x_FromDestination(b, T, instruction) ==
    LET first == LoadLocal(b, instruction.vA)
        second == LoadLocal(first, instruction.vB)
    IN  Binop(second, T, first.val, second.val, instruction.vA)
Binop_32x(b, T, instruction) ==
    LET first == LoadLocal(b, instruction.vB)
        second == LoadLocal(first, instruction.vC)
    IN  Binop(second, T, first.val, second.val, instruction.vA)

Binop_12x(b, T, instruction) ==
    LET first == LoadLocal(b, instruction.vA)
        second == LoadLocal(first, instruction.vB)
    IN  Binop(second, T, first.val, second.val, instruction.vA)

\* the literal forms without the swap of the operands
Binop_22_NoSwap(b, T, instruction, reverse) ==
    LET first == LoadLocal(b, instruction.vB)
        second == GetConstant(first, instruction.vC)
    IN  Binop(second, T, first.val, second.val, instruction.vA)

\* Binop_22s and Binop_22b, which differ by the width of the literal vC.
Binop_22(b, T, instruction, reverse) ==
    LET first == LoadLocal(b, instruction.vB)
        second == GetConstant(first, instruction.vC)
    IN  IF reverse
        THEN Binop(second, T, second.val, first.val, instruction.vA)
        ELSE Binop(second, T, first.val, second.val, instruction.vA)

\* The arguments of an invoke, pushed from the registers.
RECURSIVE PushArguments(_, _, _, _)
PushArguments(b, registers, i, pushes) ==
    IF i >= Len(registers)
    THEN [b EXCEPT !.val = pushes]
    ELSE LET arg == LoadLocal(b, registers[i + 1])
             push == AddInstruction(arg, b.current_block_,
                                    HInstruction("HPushArgument", <<arg.val>>, i))
         IN  PushArguments(push, registers, i + 1, Append(pushes, push.val))

\* INVOKE_STATIC, INVOKE_DIRECT and their range forms; the registers of the
\* arguments are consecutive from vC here.
Invoke(b, instruction, dex_offset) ==
    IF ReturnDescriptor(instruction.vB) # "V"
    THEN [b EXCEPT !.val = FALSE]
    ELSE LET pushed == PushArguments(b, [i \in 1..instruction.vA |-> instruction.vC + i - 1],
                                     0, <<>>)
             invoke == AddInstruction(pushed, b.current_block_,
                                      HInstruction("HInvokeStatic", pushed.val,
                                                   instruction.vB))
         IN  [invoke EXCEPT !.val = TRUE]

\* A return or a goto: the instruction, the edge, and no current block.
Terminate(b, block, successor) ==
    [AddSuccessor(b, block, successor) EXCEPT !.current_block_ = nullptr, !.val = TRUE]

AnalyzeDexInstruction(b, instruction, dex_offset) ==
    LET opcode == instruction.opcode
        done(r) == [r EXCEPT !.val = TRUE]
    IN  IF b.current_block_ = nullptr
        THEN done(b)
        ELSE CASE opcode \in {"CONST_4", "CONST_16"} ->
                      LET constant == GetConstant(b, instruction.vB)
                      IN  done(UpdateLocal(constant, instruction.vA, constant.val))
               [] opcode = "MOVE" ->
                      LET value == LoadLocal(b, instruction.vB)
                      IN  done(UpdateLocal(value, instruction.vA, value.val))
               [] opcode = "RETURN_VOID" ->
                      Terminate(AddInstruction(b, b.current_block_,
                                               HInstruction("HReturnVoid", <<>>, nullptr)),
                                b.current_block_, b.exit_block_)
               [] opcode = "IF_EQ" -> done(If_22t(b, "HEqual", instruction, dex_offset, FALSE))
               [] opcode = "IF_NE" -> done(If_22t(b, "HEqual", instruction, dex_offset, TRUE))
               [] opcode \in {"GOTO", "GOTO_16", "GOTO_32"} ->
                      Terminate(AddInstruction(b, b.current_block_,
                                               HInstruction("HGoto", <<>>, nullptr)),
                                b.current_block_,
                                FindBlockStartingAt(b, instruction.target_offset + dex_offset))
               [] opcode \in {"RETURN", "RETURN_OBJECT"} ->
                      LET value == LoadLocal(b, instruction.vA)
                      IN  Terminate(AddInstruction(value, b.current_block_,
                                                   HInstruction("HReturn", <<value.val>>,
                                                                nullptr)),
                                    b.current_block_, b.exit_block_)
               [] opcode \in {"INVOKE_STATIC", "INVOKE_DIRECT", "INVOKE_STATIC_RANGE",
                              "INVOKE_DIRECT_RANGE"} ->
                      Invoke(b, instruction, dex_offset)
               [] opcode = "ADD_INT" -> done(Binop_32x(b, "HAdd", instruction))
               [] opcode = "SUB_INT" -> done(Binop_32x(b, "HSub", instruction))
               [] opcode = "ADD_INT_2ADDR" -> done(Binop_12x(b, "HAdd", instruction))
               [] opcode = "SUB_INT_2ADDR" -> done(Binop_12x(b, "HSub", instruction))
               [] opcode \in {"ADD_INT_LIT16", "ADD_INT_LIT8"} ->
                      done(Binop_22(b, "HAdd", instruction, FALSE))
               [] opcode \in {"RSUB_INT", "RSUB_INT_LIT8"} ->
                      done(Binop_22(b, "HSub", instruction, TRUE))
               [] opcode = "NEW_INSTANCE" ->
                      LET new == AddInstruction(b, b.current_block_,
                                                HInstruction("HNewInstance", <<>>,
                                                             instruction.vB))
                      IN  done(UpdateLocal(new, instruction.vA, new.val))
               [] opcode = "NOP" -> done(b)
               [] OTHER -> [b EXCEPT !.val = FALSE]

(***************************************************************************)
(* BuildGraph, in three steps: up to the loop, one turn of the loop, and   *)
(* from the end of the loop.  It returns nullptr or graph_.                *)
(***************************************************************************)
\* The graph with its entry block, which is added to it, and its exit block.
SetupGraph(b) ==
    LET \* graph_ = new (arena_) HGraph(arena_)
        entry == NewBlock([b EXCEPT !.graph_ = 1])
        added == AddBlock([entry EXCEPT !.entry_block_ = entry.val], entry.val)
        exit == NewBlock(added)
    IN  [exit EXCEPT !.exit_block_ = exit.val,
                     !.graph.entry_block_ = added.entry_block_,
                     !.graph.exit_block_ = exit.val]

BuildGraphReturns(b, graph) ==
    /\ builder' = [b EXCEPT !.pc = "return", !.val = nullptr]
    /\ ret' = Call("BuildGraph", nullptr, input, graph)

BuildGraphGoesOn(b) ==
    /\ builder' = [b EXCEPT !.pc = "loop", !.val = nullptr]
    /\ UNCHANGED ret

BuildGraph ==
    /\ builder.pc = "BuildGraph"
    /\ LET code_item == input.code_item
           locals == InitializeLocals(SetupGraph(builder), code_item.registers_size_)
           targets == ComputeBranchTargets(locals, code_item.insns_)
           parameters == InitializeParameters(targets, input.unit, code_item.ins_size_)
       IN  IF ~CanHandleCodeItem(code_item)
           THEN BuildGraphReturns(builder, nullptr)
           ELSE IF ~parameters.val
                THEN BuildGraphReturns(parameters, nullptr)
                ELSE BuildGraphGoesOn(parameters)
    /\ UNCHANGED <<ranges, uses, intervals, pass, input, insns, data, literal_list_, reg_pool_>>

BuildGraphLoop ==
    /\ builder.pc = "loop"
    /\ builder.code_ptr <= Len(input.code_item.insns_)
    /\ LET instruction == input.code_item.insns_[builder.code_ptr]
           updated == MaybeUpdateCurrentBlock(builder, builder.dex_offset)
           analyzed == AnalyzeDexInstruction(updated, instruction, builder.dex_offset)
       IN  IF ~analyzed.val
           THEN BuildGraphReturns(analyzed, nullptr)
           ELSE BuildGraphGoesOn([analyzed EXCEPT
                                      !.dex_offset = @ + SizeInCodeUnits(instruction),
                                      !.code_ptr = @ + 1])
    /\ UNCHANGED <<ranges, uses, intervals, pass, input, insns, data, literal_list_, reg_pool_>>

BuildGraphEnd ==
    /\ builder.pc = "loop"
    /\ builder.code_ptr > Len(input.code_item.insns_)
    /\ LET added == AddBlock(builder, builder.exit_block_)
           exit == AddInstruction(added, added.exit_block_,
                                  HInstruction("HExit", <<>>, nullptr))
           entry == AddInstruction(exit, exit.entry_block_,
                                   HInstruction("HGoto", <<>>, nullptr))
       IN  BuildGraphReturns(entry, entry.graph_)
    /\ UNCHANGED <<ranges, uses, intervals, pass, input, insns, data, literal_list_, reg_pool_>>

(***************************************************************************)
(* The methods BuildGraph is given.  A body is written with the rank of    *)
(* the instruction a branch goes to, from which its relative offset in     *)
(* code units is computed.  As the verifier has it, branches go to         *)
(* instructions of the body, the last instruction is a return, a throw or  *)
(* a goto, registers_size_ covers the registers the body names and         *)
(* ins_size_ is the number of registers the parameters of the shorty take. *)
(***************************************************************************)
Plain ==
    {Instruction("CONST_4", 0, 0, 0, 0), Instruction("CONST_4", 1, 1, 0, 0),
     Instruction("CONST_16", 0, 7, 0, 0), Instruction("ADD_INT", 2, 0, 1, 0),
     Instruction("NOP", 0, 0, 0, 0), Instruction("MUL_INT", 2, 0, 1, 0),
     Instruction("INVOKE_STATIC", 1, 0, 0, 0), Instruction("INVOKE_STATIC", 1, 1, 0, 0)}
Returns ==
    {Instruction("RETURN", 2, 0, 0, 0), Instruction("RETURN_VOID", 0, 0, 0, 0),
     Instruction("THROW", 0, 0, 0, 0)}
Branches(n) ==
    {Instruction("IF_EQ", 0, 1, 0, to) : to \in 1..n}
        \cup {Instruction("IF_NE", 0, 1, 0, to) : to \in 1..n}
Gotos(n) == {Instruction("GOTO", 0, 0, 0, to) : to \in 1..n}

Bodies ==
    UNION {{body \in [1..n -> Plain \cup Returns \cup Branches(n) \cup Gotos(n)] :
                body[n] \in Returns \cup Gotos(n)} : n \in 1..MaxCode}
\* The body with the relative offsets of its branches.
Assemble(body) ==
    [k \in DOMAIN body |->
        IF IsBranch(body[k])
        THEN [body[k] EXCEPT !.target_offset = OffsetOf(body, @) - OffsetOf(body, k)]
        ELSE body[k]]

Shorties == {<<"V">>, <<"V", "I">>, <<"V", "L", "I">>, <<"V", "J">>, <<"V", "I", "F">>,
             <<"I", "D">>}
\* The registers the parameters take.
RECURSIVE InsSize(_, _)
InsSize(shorty, pos) ==
    IF pos > Len(shorty)
    THEN 0
    ELSE (IF shorty[pos] \in {"J", "D"} THEN 2 ELSE 1) + InsSize(shorty, pos + 1)
DexCompilationUnit(shorty, is_static) ==
    [dex_compilation_unit_ |-> 1, shorty |-> shorty, is_static |-> is_static]
\* dex_compilation_unit_ is null when unit testing.
NoCompilationUnit == [dex_compilation_unit_ |-> nullptr, shorty |-> <<"V">>, is_static |-> TRUE]
Units ==
    {u \in {DexCompilationUnit(shorty, is_static) : shorty \in Shorties, is_static \in BOOLEAN} :
         InsSize(u.shorty, 2) + (IF u.is_static THEN 0 ELSE 1) <= NumVRegs}
        \cup {NoCompilationUnit}

\* The method BuildGraph is given: its code item and its compilation unit.
CodeItemOf(body, unit, tries_size_) ==
    [op |-> "BuildGraph",
     code_item |-> [insns_ |-> Assemble(body),
                    tries_size_ |-> tries_size_,
                    registers_size_ |-> NumVRegs,
                    ins_size_ |-> IF unit = NoCompilationUnit
                                  THEN 0
                                  ELSE InsSize(unit.shorty, 2)
                                       + (IF unit.is_static THEN 0 ELSE 1),
                    outs_size_ |-> 0],
     unit |-> unit]

BuilderInit ==
    /\ NoIntervals
    /\ insns = <<>>
    /\ data = <<>>
    /\ literal_list_ = nullptr
    /\ reg_pool_ = NoTemps
    /\ ret = NoCall
    /\ builder = HGraphBuilder
    /\ \E body \in Bodies, unit \in Units, tries_size_ \in {0, 1} :
           /\ tries_size_ > 0 => unit = NoCompilationUnit
           /\ input = CodeItemOf(body, unit, tries_size_)

BuilderNext == BuildGraph \/ BuildGraphLoop \/ BuildGraphEnd

SpecBuilder == BuilderInit /\ [][BuilderNext]_vars

(***************************************************************************)
(* Straight-line methods of four instructions: two constants, a binary     *)
(* operation of any of its forms, and a return.                            *)
(***************************************************************************)
ConstInsns ==
    {Instruction("CONST_4", 0, 0, 0, 0), Instruction("CONST_4", 1, 1, 0, 0),
     Instruction("CONST_4", 0, 1, 0, 0), Instruction("CONST_16", 1, 7, 0, 0)}
\* vA, vB, vC are registers for the three-register forms, vA and vB for
\* the 2ADDR forms, and vC is the literal of the LIT16 and LIT8 forms.
BinopInsns ==
    {Instruction(opcode, 2, 0, 1, 0) : opcode \in {"ADD_INT", "SUB_INT"}}
        \cup {Instruction(opcode, 1, 0, 0, 0) : opcode \in {"ADD_INT_2ADDR", "SUB_INT_2ADDR"}}
        \cup {Instruction(opcode, 2, 1, literal, 0) :
                  opcode \in {"ADD_INT_LIT16", "ADD_INT_LIT8", "RSUB_INT", "RSUB_INT_LIT8"},
                  literal \in {0, 1, 7}}
StraightBodies ==
    {<<first, second, binop, return>> :
         first \in ConstInsns, second \in ConstInsns, binop \in BinopInsns,
         return \in {Instruction("RETURN", 2, 0, 0, 0), Instruction("RETURN", 1, 0, 0, 0),
                     Instruction("RETURN_VOID", 0, 0, 0, 0)}}

StraightInit ==
    /\ NoIntervals
    /\ insns = <<>>
    /\ data = <<>>
    /\ literal_list_ = nullptr
    /\ reg_pool_ = NoTemps
    /\ ret = NoCall
    /\ builder = HGraphBuilder
    /\ \E body \in StraightBodies,
          unit \in {NoCompilationUnit, DexCompilationUnit(<<"V", "I">>, TRUE)} :
           input = CodeItemOf(body, unit, 0)

SpecStraight == StraightInit /\ [][BuilderNext]_vars

(***************************************************************************)
(* Requests of constants within one build: GetConstant called on a builder *)
(* whose graph and locals are set up, any number of times up to            *)
(* MaxRequests, with any of the literals.                                  *)
(***************************************************************************)
MaxRequests == 4
RequestedLiterals == {0, 1, 7, -1}

ConstantsInit ==
    /\ NoIntervals
    /\ insns = <<>>
    /\ data = <<>>
    /\ literal_list_ = nullptr
    /\ reg_pool_ = NoTemps
    /\ ret = NoCall
    /\ \E registers_size_ \in 0..NumVRegs :
           /\ input = [op |-> "GetConstant", registers_size_ |-> registers_size_]
           /\ builder = [InitializeLocals(SetupGraph(HGraphBuilder), registers_size_)
                             EXCEPT !.pc = "GetConstant"]

GetConstantCall ==
    /\ builder.pc = "GetConstant"
    /\ builder.code_ptr <= MaxRequests
    /\ \E constant \in RequestedLiterals :
           LET instruction == GetConstant(builder, constant)
           IN  /\ builder' = [instruction EXCEPT !.code_ptr = @ + 1, !.val = nullptr]
               /\ ret' = Call("GetConstant", nullptr, constant, instruction.val)
    /\ UNCHANGED <<ranges, uses, intervals, pass, input, insns, data, literal_list_, reg_pool_>>

SpecConstants == ConstantsInit /\ [][GetConstantCall]_vars

(***************************************************************************)
(* Properties of the floating-point immediate encoders.                    *)
(***************************************************************************)
\* aBbb.bbbc.defg.h000.0000.0000.0000.0000 with B = not(b)
SinglePattern(bits) ==
    /\ bits \cap (0..18) = {}
    /\ \A i, j \in 25..29 : (i \in bits) <=> (j \in bits)
    /\ (30 \in bits) <=> (29 \notin bits)

\* aBbb.bbbb.bbcd.efgh then 48 zeros, with B = not(b)
DoublePattern(bits) ==
    /\ bits \cap (0..47) = {}
    /\ \A i, j \in 54..61 : (i \in bits) <=> (j \in bits)
    /\ (62 \in bits) <=> (61 \notin bits)

\* abcdefgh read off a pattern: a is bit sign, b is bit sign - 2, cdefgh are
\* the six bits from position low up.
PatternCode(bits, sign, low) ==
    (IF sign \in bits THEN 128 ELSE 0) + (IF (sign - 2) \in bits THEN 64 ELSE 0)
        + (IF (low + 5) \in bits THEN 32 ELSE 0) + (IF (low + 4) \in bits THEN 16 ELSE 0)
        + (IF (low + 3) \in bits THEN 8 ELSE 0) + (IF (low + 2) \in bits THEN 4 ELSE 0)
        + (IF (low + 1) \in bits THEN 2 ELSE 0) + (IF low \in bits THEN 1 ELSE 0)

\* The pattern whose code is c.
PatternOfCode(c, sign, low) ==
    (IF (c \div 128) % 2 = 1 THEN {sign} ELSE {})
        \cup (IF (c \div 64) % 2 = 1 THEN (low + 6)..(sign - 2) ELSE {sign - 1})
        \cup {low + k : k \in {j \in 0..5 : (c \div 2^j) % 2 = 1}}
SingleOfCode == [c \in 0..255 |-> PatternOfCode(c, 31, 19)]
DoubleOfCode == [c \in 0..255 |-> PatternOfCode(c, 63, 48)]

IsFpLoad(call) == call.op \in {"LoadFPConstantValue", "LoadFPConstantValueWide"}
IsWideLoad(call) == call.op = "LoadFPConstantValueWide"
HasCompactCode(call) ==
    IF IsWideLoad(call) THEN DoublePattern(call.arg) ELSE SinglePattern(call.arg)
CompactCode(call) ==
    IF IsWideLoad(call) THEN PatternCode(call.arg, 63, 48) ELSE PatternCode(call.arg, 31, 19)

\* The constant a literal load of the given width reads at node n.
ConstantAt(ds, wide, n) ==
    IF wide THEN WordPair(ds[n].operands0, ds[ds[n].next].operands0) ELSE ds[n].operands0

\* C9: a floating-point constant load appends exactly one instruction to the
\* method and returns it: for value 0 a move from the zero register (single
\* and double, whatever the pool holds), for a value with a compact
\* encoding the move-immediate that carries its code, for every other value
\* a load whose target is a literal-pool node holding the value.
C9_FpLoadOneInstruction ==
    [][IsFpLoad(ret') =>
          LET ins == insns'[Len(insns')]
              wide == IsWideLoad(ret')
          IN  /\ Len(insns') = Len(insns) + 1
              /\ SubSeq(insns', 1, Len(insns)) = insns
              /\ ret'.val = Len(insns')
              /\ ins.operands[1] = ret'.self
              /\ IF ret'.arg = {}
                 THEN /\ ins.opcode = IF wide THEN kA64Fmov2Sx ELSE kA64Fmov2sw
                      /\ ins.operands[2] = rwzr
                      /\ ins.target = nullptr
                 ELSE IF HasCompactCode(ret')
                 THEN /\ ins.opcode = [name |-> "kA64Fmov2fI", wide |-> wide]
                      /\ ins.operands[2] = CompactCode(ret')
                      /\ ins.target = nullptr
                 ELSE /\ ins.opcode = [name |-> "kA64Ldr2fp", wide |-> wide]
                      /\ ins.target \in DOMAIN data'
                      /\ ConstantAt(data', wide, ins.target) = ret'.arg]_vars

\* A double whose low word is 0 is in the pool, then 0.0f and 1.0f are loaded.
C9_Witness ==
    /\ Len(insns) = 3
    /\ insns[1].opcode = FWIDE(kA64Ldr2fp)
    /\ data[insns[1].target].operands0 = {}
    /\ insns[2].opcode = kA64Fmov2sw
    /\ insns[3].opcode = kA64Fmov2fI

\* The pool holds the constant: as a word, or as two words in a row.
InPool(wide, value) ==
    \E n \in DOMAIN data :
        /\ wide => data[n].next # nullptr
        /\ ConstantAt(data, wide, n) = value

\* The constants of the given width that the method's literal loads read.
LoadedLiterals(wide) ==
    {ConstantAt(data, wide, insns[k].target) :
        k \in {j \in DOMAIN insns :
                 insns[j].opcode = [name |-> "kA64Ldr2fp", wide |-> wide]}}

\* At most one entry (a word, or a pair of words) per constant loaded.
OneEntryPerConstant ==
    Len(data) <= Cardinality(LoadedLiterals(FALSE)) + 2 * Cardinality(LoadedLiterals(TRUE))

\* C10: after any sequence of floating-point constant loads the pool holds at
\* most one entry per distinct constant; a load adds an entry (at the head)
\* only when the value is not 0, has no compact encoding and is not in the
\* pool already; every other load leaves the pool as it is, and a load of a
\* value that is in the pool refers to a node that was there.
C10_LiteralPoolDeduplicated ==
    [][IsFpLoad(ret') =>
          LET wide == IsWideLoad(ret')
              value == ret'.arg
              literal == value # {} /\ ~HasCompactCode(ret')
              ins == insns'[Len(insns')]
          IN  /\ IF literal /\ ~InPool(wide, value)
                 THEN /\ Len(data') = Len(data) + (IF wide THEN 2 ELSE 1)
                      /\ SubSeq(data', 1, Len(data)) = data
                      /\ literal_list_' = Len(data')
                      /\ ins.target = literal_list_'
                      /\ ConstantAt(data', wide, literal_list_') = value
                 ELSE /\ data' = data
                      /\ literal_list_' = literal_list_
              /\ (literal /\ InPool(wide, value)) =>
                     /\ ins.target \in DOMAIN data
                     /\ ConstantAt(data, wide, ins.target) = value
              /\ OneEntryPerConstant']_vars

\* 3.14159f is loaded twice from one node, then a double is added.
C10_Witness ==
    /\ Len(insns) = 3
    /\ insns[1].opcode = kA64Ldr2fp
    /\ insns[2].opcode = kA64Ldr2fp
    /\ insns[1].target = insns[2].target
    /\ insns[3].opcode = FWIDE(kA64Ldr2fp)
    /\ Len(data) = 3

(***************************************************************************)
(* Properties of EncodeLogicalImmediate.                                   *)
(***************************************************************************)
IsLogicalCall(call) == call.op = "EncodeLogicalImmediate"
WidthOf(call) == IF call.self THEN 64 ELSE 32
\* The argument is a value of the requested width.
InWidth(call) == call.arg \subseteq 0..(WidthOf(call) - 1)

\* C6: for every value v of the requested width (64-bit when is_wide, 32-bit
\* otherwise) for which EncodeLogicalImmediate returns a non-negative
\* result, decoding the returned N, immr, imms (a run of imms+1 low bits in
\* an element of the size N:imms selects, rotated right by immr, repeated
\* across the width) gives v.
C6_LogicalImmediateRoundTrip ==
    (IsLogicalCall(ret) /\ InWidth(ret) /\ ret.val >= 0) =>
        DecodeLogicalImmediate(ret.self, ret.val) = ret.arg

\* 0xff00ff00: an element of 16 bits, a run of 8 bits, rotated by 8.
C6_Witness ==
    /\ IsLogicalCall(ret)
    /\ ~ret.self
    /\ ret.arg = (8..15) \cup (24..31)
    /\ ret.val = 32 + 7 + 64 * 8

\* A single run of set bits.
IsRun(v) == v # {} /\ v = MinOf(v)..MaxOf(v)

\* Neither 0 nor all ones at the width, and a run, or the complement of a
\* run, or two equal halves that are such a value at half the width.
RECURSIVE IsLogicalPattern(_, _)
IsLogicalPattern(width, v) ==
    /\ v # {}
    /\ v # 0..(width - 1)
    /\ \/ IsRun(v)
       \/ IsRun((0..(width - 1)) \ v)
       \/ /\ width > 2
          /\ {b - (width \div 2) : b \in {j \in v : j >= width \div 2}}
                 = {j \in v : j < width \div 2}
          /\ IsLogicalPattern(width \div 2, {j \in v : j < width \div 2})

\* 0x0123456789abcdef
NoPattern ==
    {0, 1, 2, 3, 5, 6, 7, 8, 10, 11, 14, 15, 16, 17, 19, 21, 23, 24, 27, 31, 32, 33,
     34, 37, 38, 40, 42, 46, 48, 49, 53, 56}

\* C7: on a value of the requested width EncodeLogicalImmediate returns a
\* non-negative result exactly when the value is neither 0 nor all ones and
\* is a run of set bits, the complement of a run, or two equal halves that
\* are recursively such a pattern down to width 2, and -1 on every other
\* value; 0x00000000ffffffff (64-bit) is encoded as a run of the full width
\* (N = 1), 0x5555555555555555 at width 2 (imms = 0x3c), and
\* 0x0123456789abcdef is not encoded.
C7_LogicalImmediateDomain ==
    (IsLogicalCall(ret) /\ InWidth(ret)) =>
        /\ IF IsLogicalPattern(WidthOf(ret), ret.arg) THEN ret.val >= 0 ELSE ret.val = -1
        /\ (ret.self /\ ret.arg = 0..31) => (ret.val >= 0 /\ ret.val \div 4096 = 1)
        /\ (ret.self /\ ret.arg = {2 * k : k \in 0..31}) =>
               (ret.val >= 0 /\ ret.val \div 4096 = 0 /\ ret.val % 64 = 60)
        /\ (ret.self /\ ret.arg = NoPattern) => ret.val = -1

\* 0x5555555555555555 is encoded after five halvings.
C7_Witness ==
    /\ IsLogicalCall(ret)
    /\ ret.self
    /\ ret.arg = {2 * k : k \in 0..31}
    /\ ret.val = 60

(***************************************************************************)
(* Properties of LoadConstantNoClobber.                                    *)
(***************************************************************************)
\* The low 16 bits of an immediate operand.
Imm16(operand) == BitAnd(Bits32(operand), 0..15)

\* What a 32-bit destination holds after the instruction, rd being what it
\* held before; the source register of mov, mvn and orr is the zero register.
ExecuteMove(ins, rd) ==
    LET name == ins.opcode.name
        moved == Shl(32, Imm16(ins.operands[2]), 16 * ins.operands[3])
    IN  CASE name = "kA64Mov2rr" -> {}
          [] name = "kA64Mvn2rr" -> 0..31
          [] name = "kA64Orr3Rrl" -> DecodeLogicalImmediate(FALSE, ins.operands[3])
          [] name = "kA64Movz3rdM" -> moved
          [] name = "kA64Movn3rdM" -> BitNot(32, moved)
          [] name = "kA64Movk3rdM" ->
                (rd \ {b + 16 * ins.operands[3] : b \in 0..15}) \cup moved

RECURSIVE ExecuteMoves(_, _)
ExecuteMoves(code, rd) ==
    IF code = <<>> THEN rd ELSE ExecuteMoves(Tail(code), ExecuteMove(Head(code), rd))

IsIntConstantLoad(call) == call.op = "LoadConstantNoClobber" /\ ~call.self.is_float
FromZeroRegister(ins) == ins.operands[2] = rwzr

\* C11: for a 32-bit value and an integer destination LoadConstantNoClobber
\* emits one instruction when a 16-bit half is 0x0000 or 0xffff (mov or mvn
\* from the zero register when the halves are equal, else movz or movn with
\* a half-word shift) or when the value is a 32-bit logical immediate (orr
\* with the zero register), else movz(low half, 0) then movk(high half, 1);
\* the emitted instructions, their 16-bit immediates taken as their low 16
\* bits, leave the value in the destination whatever it held.
C11_LoadConstantExact ==
    IsIntConstantLoad(ret) =>
        LET value == ret.arg
            low == {b \in 0..15 : b \in value}
            high == {b \in 0..15 : (b + 16) \in value}
            fast == low \in {{}, 0..15} \/ high \in {{}, 0..15}
            names == [k \in DOMAIN insns |-> insns[k].opcode.name]
        IN  /\ \A k \in DOMAIN insns :
                   insns[k].operands[1] = ret.self.reg /\ ~insns[k].opcode.wide
            /\ ret.val = 1
            /\ IF fast /\ low = high
               THEN /\ names \in {<<"kA64Mov2rr">>, <<"kA64Mvn2rr">>}
                    /\ FromZeroRegister(insns[1])
               ELSE IF fast
               THEN /\ names \in {<<"kA64Movz3rdM">>, <<"kA64Movn3rdM">>}
                    /\ insns[1].operands[3] \in {0, 1}
               ELSE IF IsLogicalPattern(32, value)
               THEN /\ names = <<"kA64Orr3Rrl">>
                    /\ FromZeroRegister(insns[1])
               ELSE /\ names = <<"kA64Movz3rdM", "kA64Movk3rdM">>
                    /\ Imm16(insns[1].operands[2]) = low /\ insns[1].operands[3] = 0
                    /\ Imm16(insns[2].operands[2]) = high /\ insns[2].operands[3] = 1
            /\ \A rd \in {{}, 0..31, {3, 17}} : ExecuteMoves(insns, rd) = value

\* 0xffff1234 is loaded by movn with the immediate ~0x1234 = 0xffffedcb.
C11_Witness ==
    /\ IsIntConstantLoad(ret)
    /\ ret.arg = {2, 4, 5, 9, 12} \cup (16..31)
    /\ insns[1].opcode = kA64Movn3rdM
    /\ insns[1].operands[2] = -4661

(***************************************************************************)
(* Properties of the loads and stores at base + displacement.              *)
(***************************************************************************)
IsMemCall == ret.op \in {"LoadBaseDispBody", "StoreBaseDispBody"}
\* The number of bytes of an operand size.
BytesOf(size) ==
    CASE size \in {"kDouble", "kWord", "k64"} -> 8
      [] size \in {"kSingle", "k32", "kReference"} -> 4
      [] size \in {"kUnsignedHalf", "kSignedHalf"} -> 2
      [] size \in {"kUnsignedByte", "kSignedByte"} -> 1
\* The instructions with a scaled unsigned 12-bit immediate offset.
ScaledForms ==
    {"kA64Ldr3fXD", "kA64Ldr3rXD", "kA64Ldrh3wXF", "kA64Ldrsh3rXF", "kA64Ldrb3wXd",
     "kA64Ldrsb3rXd", "kA64Str3fXD", "kA64Str3rXD", "kA64Strh3wXF", "kA64Strb3wXd"}
\* The instructions with an unscaled signed 9-bit immediate offset.
UnscaledForms == {"kA64Ldur3fXd", "kA64Ldur3rXd", "kA64Stur3fXd", "kA64Stur3rXd"}
FitsScaled(displacement, size) ==
    /\ displacement % BytesOf(size) = 0
    /\ displacement \div BytesOf(size) >= 0
    /\ displacement \div BytesOf(size) < 4096
\* The method holds one instruction, of one of the forms, on the operands
\* of the call and the immediate.
IsSingleAccess(forms, imm) ==
    /\ Len(insns) = 1
    /\ insns[1].opcode.name \in forms
    /\ insns[1].operands = <<ret.arg.r_dest.reg, ret.arg.r_base.reg, imm, 0, 0>>
    /\ ret.val = 1

\* C12: LoadBaseDispBody and StoreBaseDispBody emit a single instruction of
\* the scaled-immediate form, carrying displacement >> scale, exactly when
\* the displacement is a multiple of the operand size whose quotient lies in
\* 0..4095, and then the temporaries in use are those in use before.
C12_ScaledImmediateForm ==
    [][IsMemCall' =>
           LET displacement == input.displacement
               size == input.size
           IN  /\ FitsScaled(displacement, size)
                    <=> (Len(insns') = 1 /\ insns'[1].opcode.name \in ScaledForms)
               /\ FitsScaled(displacement, size)
                    => /\ IsSingleAccess(ScaledForms, displacement \div BytesOf(size))'
                       /\ reg_pool_' = reg_pool_]_vars
C12_Witness ==
    /\ IsMemCall
    /\ ret.arg.displacement = 4095 * 4
    /\ ret.arg.size = "k32"
    /\ IsSingleAccess(ScaledForms, 4095)

\* The displacement fits the signed 9-bit field and not the scaled form.
FitsUnscaledOnly(displacement, size) ==
    /\ ~FitsScaled(displacement, size)
    /\ displacement >= -256
    /\ displacement <= 255
\* A call with such a displacement and an operand size among sizes leaves one
\* instruction of the unscaled form carrying the displacement, and the
\* temporaries as they were.
UnscaledFormFor(sizes) ==
    (IsMemCall' /\ input.size \in sizes /\ FitsUnscaledOnly(input.displacement, input.size))
        => /\ IsSingleAccess(UnscaledForms, input.displacement)'
           /\ reg_pool_' = reg_pool_

\* C13 as stated: for loads and stores of every operand size, a displacement
\* that fits the signed 9-bit field and not the scaled form is emitted as one
\* unscaled-immediate instruction carrying it, with no scratch register.
C13_UnscaledEverySize == [][UnscaledFormFor(OpSize)]_vars

\* C13, amended: the same for the 8-byte operand sizes (kDouble, kWord, k64).
C13_UnscaledEightBytes == [][UnscaledFormFor({"kDouble", "kWord", "k64"})]_vars
C13_Witness ==
    /\ IsMemCall
    /\ ret.arg.size = "k64"
    /\ ret.arg.displacement = -8
    /\ IsSingleAccess(UnscaledForms, -8)

(***************************************************************************)
(* Properties of the scratch-register fallback.                            *)
(***************************************************************************)
IsOpsCall ==
    ret.op \in {"LoadBaseDispBody", "StoreBaseDispBody", "OpRegRegImm", "OpRegImm64"}
\* The displacement or immediate of a request.
ImmediateOf(request) ==
    IF request.op \in {"LoadBaseDispBody", "StoreBaseDispBody"}
    THEN request.displacement
    ELSE request.value
\* The compact forms of the four operations are single instructions.
TookFallback == Len(insns) > 1 \/ ret.val = FatalResult
\* The instructions before the last load the immediate into one temporary
\* that was free, and the last one reads it as its index or second source
\* (the operand after the destination of a compare, the third of the others).
UsesOneScratch(free, immediate) ==
    /\ Len(insns) > 1
    /\ LET last == insns[Len(insns)]
           const == SubSeq(insns, 1, Len(insns) - 1)
           r_scratch == IF last.opcode.name = "kA64Cmp3rro"
                        THEN last.operands[2]
                        ELSE last.operands[3]
       IN  /\ r_scratch \in free
           /\ \A k \in DOMAIN const : const[k].operands[1] = r_scratch
           /\ ExecuteMoves(const, {}) = Bits32(immediate)

\* C14: whenever no compact immediate form applies, LoadBaseDispBody,
\* StoreBaseDispBody, OpRegRegImm and OpRegImm64 allocate one scratch
\* register, load the displacement or immediate into it, use it as the index
\* or source operand and free it before returning: the temporaries in use
\* after a call are those in use before it, so also after any sequence of
\* calls, and each call returns an instruction record, never a failure.
C14_ScratchFallback ==
    [][(IsOpsCall' /\ TookFallback')
           => /\ ret'.val \in 1..Len(insns')
              /\ UsesOneScratch(TempRegs \ reg_pool_.in_use, ImmediateOf(input))'
              /\ reg_pool_' = reg_pool_]_vars

(***************************************************************************)
(* Properties of the operations that are not implemented.                  *)
(***************************************************************************)
Unimplemented ==
    {"OpFpRegCopy", "LoadBaseIndexedDisp", "StoreBaseIndexedDisp", "OpMem", "OpRegMem",
     "OpCondRegReg", "OpThreadMem", "OpMovRegMem", "OpMovMemReg"}

\* C15: every call of OpFpRegCopy, LoadBaseIndexedDisp, StoreBaseIndexedDisp,
\* OpMem, OpRegMem, OpCondRegReg, OpThreadMem, OpMovRegMem or OpMovMemReg,
\* whatever its operands, ends in the fatal state and leaves the instructions
\* and the literal pool of the method as they were.
C15_UnimplementedIsFatal ==
    [][(ret' # ret /\ ret'.op \in Unimplemented)
           => /\ ret'.val = FatalResult
              /\ insns' = insns
              /\ data' = data
              /\ literal_list_' = literal_list_]_vars
\* OpFpRegCopy of two double registers after a two-instruction constant load.
C15_Witness ==
    /\ ret.op = "OpFpRegCopy"
    /\ ret.arg.r_dest = RegStorage(TRUE, TRUE, DestReg)
    /\ ret.val = FatalResult
    /\ Len(insns) = 2

(***************************************************************************)
(* Properties of HGraphBuilder.                                            *)
(***************************************************************************)
Returned == builder.pc = "return" /\ ret.op = "BuildGraph"
NoGraph == Returned /\ ret.val = nullptr
\* A declared parameter (the shorty after its return type) is F, D or J.
HasWideOrFloatParameter(unit) ==
    /\ unit.dex_compilation_unit_ # nullptr
    /\ \E pos \in 2..Len(unit.shorty) : unit.shorty[pos] \in {"F", "D", "J"}

\* C16: with a compilation unit, BuildGraph returns no graph when a declared
\* parameter of the method is a float, a double or a long, whatever the
\* body and whether the method is static or not: it never enters its loop
\* over the body.
C16_WideOrFloatParameter ==
    HasWideOrFloatParameter(input.unit)
        => /\ builder.pc # "loop"
           /\ builder.pc = "return" => NoGraph
\* An instance method (IF)V with a three-instruction body.
C16_Witness ==
    /\ NoGraph
    /\ input.unit = DexCompilationUnit(<<"V", "I", "F">>, FALSE)
    /\ Len(input.code_item.insns_) = 3
    /\ builder.graph_ # nullptr

\* The opcodes AnalyzeDexInstruction has a case for.
TranslatedOpcodes ==
    {"CONST_4", "CONST_16", "MOVE", "RETURN_VOID", "IF_EQ", "IF_NE", "GOTO", "GOTO_16",
     "GOTO_32", "RETURN", "RETURN_OBJECT", "INVOKE_STATIC", "INVOKE_DIRECT",
     "INVOKE_STATIC_RANGE", "INVOKE_DIRECT_RANGE", "ADD_INT", "SUB_INT", "ADD_INT_2ADDR",
     "SUB_INT_2ADDR", "ADD_INT_LIT16", "ADD_INT_LIT8", "RSUB_INT", "RSUB_INT_LIT8",
     "NEW_INSTANCE", "NOP"}
HasNoTranslationRule(instruction) == instruction.opcode \notin TranslatedOpcodes
InvokesNonVoid(instruction) ==
    /\ instruction.opcode \in {"INVOKE_STATIC", "INVOKE_DIRECT", "INVOKE_STATIC_RANGE",
                               "INVOKE_DIRECT_RANGE"}
    /\ ReturnDescriptor(instruction.vB) # "V"
EndsBlock(instruction) ==
    instruction.opcode \in {"RETURN_VOID", "RETURN", "RETURN_OBJECT", "GOTO", "GOTO_16",
                            "GOTO_32", "IF_EQ", "IF_NE"}
\* The k-th instruction of the body starts a block: it is the first, the
\* target of a branch, or the instruction after a branch.
IsBoundary(insns_, k) ==
    \/ k = 1
    \/ \E j \in DOMAIN insns_ :
           /\ IsBranch(insns_[j])
           /\ \/ OffsetOf(insns_, j) + insns_[j].target_offset = OffsetOf(insns_, k)
              \/ j + 1 = k
\* The k-th instruction is not dead code: a block starts at it, or the
\* instruction before it is not dead code and does not end its block.
RECURSIVE IsLive(_, _)
IsLive(insns_, k) ==
    \/ IsBoundary(insns_, k)
    \/ /\ k > 1
       /\ IsLive(insns_, k - 1)
       /\ ~EndsBlock(insns_[k - 1])
\* The graph BuildGraph returns went through every step of the build.
IsComplete ==
    /\ ret.val = builder.graph_
    /\ builder.code_ptr = Len(input.code_item.insns_) + 1
    /\ \E i \in DOMAIN builder.graph.blocks_ :
           builder.graph.blocks_[i] = builder.graph.exit_block_
    /\ builder.blocks[builder.exit_block_].instructions # <<>>
    /\ builder.blocks[builder.entry_block_].successors # <<>>

\* C17, as stated: BuildGraph returns a complete graph or none, and none
\* when the method has exception handlers, or when an instruction at any
\* position of the body, after a return or a goto included, has no
\* translation rule or invokes a method that returns a value.
C17_AnyPosition ==
    Returned
        => /\ ~NoGraph => IsComplete
           /\ input.code_item.tries_size_ > 0 => NoGraph
           /\ \A k \in DOMAIN input.code_item.insns_ :
                  \/ HasNoTranslationRule(input.code_item.insns_[k])
                  \/ InvokesNonVoid(input.code_item.insns_[k])
                  => NoGraph

\* C17, amended: BuildGraph returns a complete graph or none, and none
\* when the method has exception handlers, or when an instruction that is
\* not dead code has no translation rule or invokes a method that returns a
\* value; an instruction between a return or a goto and the next start of
\* a block is dead code, and its opcode is not looked at.
C17_LivePosition ==
    Returned
        => /\ ~NoGraph => IsComplete
           /\ input.code_item.tries_size_ > 0 => NoGraph
           /\ \A k \in DOMAIN input.code_item.insns_ :
                  /\ IsLive(input.code_item.insns_, k)
                  /\ \/ HasNoTranslationRule(input.code_item.insns_[k])
                     \/ InvokesNonVoid(input.code_item.insns_[k])
                  => NoGraph
\* A throw that follows a return and is the target of a branch: no graph,
\* after the two instructions before it were translated.
C17_Witness ==
    /\ NoGraph
    /\ input.unit = NoCompilationUnit
    /\ input.code_item.tries_size_ = 0
    /\ Len(input.code_item.insns_) = 3
    /\ input.code_item.insns_[2].opcode = "RETURN_VOID"
    /\ HasNoTranslationRule(input.code_item.insns_[3])
    /\ IsLive(input.code_item.insns_, 3)
    /\ builder.code_ptr = 3

ControlFlowKinds == {"HGoto", "HIf", "HReturn", "HReturnVoid", "HExit"}
KindAt(b, block, i) == b.instructions[b.blocks[block].instructions[i]].kind
\* The block ends with a control-flow instruction and has none before it.
EndsWithOneControlFlow(b, block) ==
    LET count == Len(b.blocks[block].instructions)
    IN  /\ count >= 1
        /\ KindAt(b, block, count) \in ControlFlowKinds
        /\ \A i \in 1..(count - 1) : KindAt(b, block, i) \notin ControlFlowKinds
LastIsReturnOrGoto(insns_) ==
    insns_[Len(insns_)].opcode \in {"RETURN_VOID", "RETURN", "RETURN_OBJECT", "GOTO",
                                    "GOTO_16", "GOTO_32"}
\* A turn of the loop of BuildGraph is about to be taken.
AtInstruction == builder.pc = "loop" /\ builder.code_ptr <= Len(input.code_item.insns_)
\* The turn closes the current block: it gets a Goto as its last
\* instruction and the block of the boundary as its only successor.
ClosesCurrentBlock ==
    LET block == builder.current_block_
        goto == Len(builder.instructions) + 1
    IN  /\ builder'.blocks[block].instructions
               = Append(builder.blocks[block].instructions, goto)
        /\ builder'.instructions[goto].kind = "HGoto"
        /\ builder'.blocks[block].successors
               = <<FindBlockStartingAt(builder, builder.dex_offset)>>
\* The turn leaves the blocks, the instructions and the graph as they are.
AppendsNothing ==
    /\ builder'.blocks = builder.blocks
    /\ builder'.instructions = builder.instructions
    /\ builder'.graph = builder.graph

\* C18: for a body that ends with a return or a goto, every block of the
\* graph BuildGraph returns ends with exactly one control-flow instruction
\* (Goto, If, Return, ReturnVoid, Exit) and has none before it; a turn of
\* the loop that comes to a block boundary with a current block appends a
\* Goto to that block and gives it the boundary's block as only successor;
\* and a turn without a current block and not at a boundary appends nothing
\* to any block.
C18_OneControlFlowPerBlock ==
    /\ [](Returned /\ ~NoGraph /\ LastIsReturnOrGoto(input.code_item.insns_)
              => \A i \in DOMAIN builder.graph.blocks_ :
                     EndsWithOneControlFlow(builder, builder.graph.blocks_[i]))
    /\ [][/\ AtInstruction /\ builder.current_block_ # nullptr
             /\ FindBlockStartingAt(builder, builder.dex_offset) # nullptr
             => ClosesCurrentBlock
          /\ AtInstruction /\ builder.current_block_ = nullptr
             /\ FindBlockStartingAt(builder, builder.dex_offset) = nullptr
             => AppendsNothing]_vars
\* The graph of [const; return-void; goto to the return]: the first block
\* came to the boundary of the return without a terminal instruction, and
\* the goto after the return was dead code.
C18_Witness ==
    /\ Returned /\ ~NoGraph
    /\ Len(input.code_item.insns_) = 3
    /\ input.code_item.insns_[1].opcode = "CONST_4"
    /\ input.code_item.insns_[2].opcode = "RETURN_VOID"
    /\ input.code_item.insns_[3].opcode = "GOTO"
    /\ input.code_item.insns_[3].target_offset = -1
    /\ Len(builder.graph.blocks_) = 4
    /\ KindAt(builder, builder.graph.blocks_[2],
              Len(builder.blocks[builder.graph.blocks_[2]].instructions)) = "HGoto"
    /\ builder.blocks[builder.graph.blocks_[2]].successors = <<builder.graph.blocks_[3]>>

\* The integer-constant nodes of the build with the given value.
ConstantNodes(b, value) ==
    {i \in DOMAIN b.instructions :
         b.instructions[i].kind = "HIntConstant" /\ b.instructions[i].value = value}
IsConstantRequest == ret'.op = "GetConstant" /\ builder'.code_ptr = builder.code_ptr + 1

\* C19: within one build, whatever constants were requested, there is at
\* most one integer-constant node for 0 and at most one for 1, a request
\* for 0 or 1 returns that node and creates one only if there is none yet,
\* a request for another literal creates a new node and returns it, and
\* every constant node is an instruction of the entry block.
C19_ConstantNodes ==
    /\ [](builder.pc = "GetConstant"
              => /\ Cardinality(ConstantNodes(builder, 0)) <= 1
                 /\ Cardinality(ConstantNodes(builder, 1)) <= 1
                 /\ \A value \in RequestedLiterals : \A node \in ConstantNodes(builder, value) :
                        /\ builder.instructions[node].block = builder.entry_block_
                        /\ \E i \in DOMAIN builder.blocks[builder.entry_block_].instructions :
                               builder.blocks[builder.entry_block_].instructions[i] = node)
    /\ [][IsConstantRequest
              => /\ ret'.val \in ConstantNodes(builder', ret'.arg)
                 /\ IF ret'.arg \in {0, 1} /\ ConstantNodes(builder, ret'.arg) # {}
                    THEN /\ ret'.val \in ConstantNodes(builder, ret'.arg)
                         /\ builder'.instructions = builder.instructions
                    ELSE /\ ret'.val = Len(builder.instructions) + 1
                         /\ Len(builder'.instructions) = Len(builder.instructions) + 1]_vars
\* Four requests, two of them for 0 and two for 7: three constant nodes.
C19_Witness ==
    /\ builder.pc = "GetConstant"
    /\ builder.code_ptr = 5
    /\ Cardinality(ConstantNodes(builder, 0)) = 1
    /\ Cardinality(ConstantNodes(builder, 7)) = 2
    /\ ret.arg = 0
    /\ ret.val < Len(builder.instructions)
    /\ input.registers_size_ = 2

\* The ranks at which the graph has the block.
RanksOf(b, block) == {i \in DOMAIN b.graph.blocks_ : b.graph.blocks_[i] = block}

\* C20: a graph BuildGraph returns has one entry block and one exit block;
\* the entry block is the first block of the graph and the exit block the
\* last, with the highest block id; the last instruction of the entry
\* block is a Goto and its only successor is the block that starts at
\* offset 0; the exit block holds the Exit instruction and nothing else.
C20_EntryAndExit ==
    Returned /\ ~NoGraph
        => LET graph == builder.graph
               count == Len(graph.blocks_)
               entry == builder.blocks[graph.entry_block_]
               exit == builder.blocks[graph.exit_block_]
           IN  /\ graph.entry_block_ # nullptr /\ graph.exit_block_ # nullptr
               /\ RanksOf(builder, graph.entry_block_) = {1}
               /\ RanksOf(builder, graph.exit_block_) = {count}
               /\ count >= 3
               /\ entry.block_id = 0
               /\ \A i \in 1..(count - 1) :
                      builder.blocks[graph.blocks_[i]].block_id < exit.block_id
               /\ entry.instructions # <<>>
               /\ KindAt(builder, graph.entry_block_, Len(entry.instructions)) = "HGoto"
               /\ entry.successors = <<FindBlockStartingAt(builder, 0)>>
               /\ Len(exit.instructions) = 1
               /\ KindAt(builder, graph.exit_block_, 1) = "HExit"
\* The graph of an instance method whose body is an if over a constant and
\* a return: five blocks, the exit block with id 4.
C20_Witness ==
    /\ Returned /\ ~NoGraph
    /\ input.unit = DexCompilationUnit(<<"V", "I">>, FALSE)
    /\ input.code_item.insns_[1].opcode = "IF_NE"
    /\ Len(builder.graph.blocks_) = 5
    /\ builder.blocks[builder.graph.exit_block_].block_id = 4
    /\ Len(builder.blocks[builder.graph.exit_block_].predecessors) = 1

\* const 0 -> v0; const 1 -> v1; add v2 = v0 + v1; return v2
SampleBody ==
    <<Instruction("CONST_4", 0, 0, 0, 0), Instruction("CONST_4", 1, 1, 0, 0),
      Instruction("ADD_INT", 2, 0, 1, 0), Instruction("RETURN", 2, 0, 0, 0)>>
BuiltSample == Returned /\ input.code_item.insns_ = Assemble(SampleBody)
\* The instructions of the block, in order.
NodesOf(b, block) ==
    [i \in DOMAIN b.blocks[block].instructions |-> b.instructions[b.blocks[block].instructions[i]]]
KindsOf(b, block) == [i \in DOMAIN NodesOf(b, block) |-> NodesOf(b, block)[i].kind]
\* The block holds a node of the kind whose inputs are all of the kind given.
HoldsWithInputs(b, block, kind, inputs, input_kind) ==
    \E i \in DOMAIN NodesOf(b, block) :
        /\ NodesOf(b, block)[i].kind = kind
        /\ Len(NodesOf(b, block)[i].inputs) = inputs
        /\ \A k \in 1..inputs :
               b.instructions[NodesOf(b, block)[i].inputs[k]].kind = input_kind
\* One block between the entry block and the exit block, with an edge to
\* the exit block and a Return.
OneBlockToExit ==
    /\ ~NoGraph
    /\ Len(builder.graph.blocks_) = 3
    /\ builder.graph.blocks_[1] = builder.graph.entry_block_
    /\ builder.graph.blocks_[3] = builder.graph.exit_block_
    /\ builder.blocks[builder.graph.blocks_[2]].successors = <<builder.graph.exit_block_>>
    /\ \E i \in DOMAIN KindsOf(builder, builder.graph.blocks_[2]) :
           KindsOf(builder, builder.graph.blocks_[2])[i] = "HReturn"

\* C21, as stated: the sample builds a graph with one block besides the
\* entry and exit blocks, which has an edge to the exit block and holds a
\* Return and an Add whose two inputs are constant nodes.
C21_AddOfConstants ==
    BuiltSample
        => /\ OneBlockToExit
           /\ HoldsWithInputs(builder, builder.graph.blocks_[2], "HAdd", 2, "HIntConstant")

\* C21, amended: the sample builds a graph with one block besides the entry
\* and exit blocks, which has an edge to the exit block and holds, in this
\* order, the stores of the constants 0 and 1 (nodes of the entry block)
\* into the locals of v0 and v1, the loads of these two locals, the Add of
\* the two loads, its store into the local of v2, the load of that local
\* and the Return of the load.
C21_AddOfLoads ==
    BuiltSample
        => /\ OneBlockToExit
           /\ LET block == builder.graph.blocks_[2]
                  at == builder.blocks[block].instructions
                  node == NodesOf(builder, block)
                  local(v) == GetLocalAt(builder, v)
              IN  /\ KindsOf(builder, block)
                         = <<"HStoreLocal", "HStoreLocal", "HLoadLocal", "HLoadLocal", "HAdd",
                             "HStoreLocal", "HLoadLocal", "HReturn">>
                  /\ node[1].inputs[1] = local(0)
                  /\ node[1].inputs[2] \in ConstantNodes(builder, 0)
                  /\ node[2].inputs[1] = local(1)
                  /\ node[2].inputs[2] \in ConstantNodes(builder, 1)
                  /\ node[3].inputs = <<local(0)>>
                  /\ node[4].inputs = <<local(1)>>
                  /\ node[5].inputs = <<at[3], at[4]>>
                  /\ node[6].inputs = <<local(2), at[5]>>
                  /\ node[7].inputs = <<local(2)>>
                  /\ node[8].inputs = <<at[7]>>
                  /\ \A value \in {0, 1} : \A constant \in ConstantNodes(builder, value) :
                         builder.instructions[constant].block = builder.graph.entry_block_
C21_Witness ==
    /\ BuiltSample
    /\ ~NoGraph
    /\ input.unit = NoCompilationUnit
    /\ Len(builder.instructions) = 15
    /\ HoldsWithInputs(builder, builder.graph.blocks_[2], "HAdd", 2, "HLoadLocal")

(***************************************************************************)
(* Further properties of the live intervals.                               *)
(***************************************************************************)
\* SplitAt has just returned a sibling.
ReturnsSibling == ret'.op = "SplitAt" /\ ret'.val \notin {nullptr, FatalResult}

\* C22: SplitAt that returns a sibling adds and removes no use position and
\* gives the sibling the use chain of the original; from then on an
\* interval and its sibling have the same use chain, and
\* FirstRegisterUseAfter(p) is the same on both for every position p, the
\* uses before the split position included.
C22_SharedUseChain ==
    /\ [](\A i \in DOMAIN intervals :
              intervals[i].next_sibling_ # nullptr
                  => /\ intervals[i].next_sibling_ \in DOMAIN intervals
                     /\ intervals[intervals[i].next_sibling_].first_use_
                            = intervals[i].first_use_
                     /\ \A p \in Positions :
                            LI_FirstRegisterUseAfter(intervals[i].next_sibling_, p)
                                = LI_FirstRegisterUseAfter(i, p))
    /\ [][ReturnsSibling
              => /\ uses' = uses
                 /\ intervals'[ret'.self].first_use_ = intervals[ret'.self].first_use_
                 /\ intervals'[ret'.val].first_use_ = intervals[ret'.self].first_use_]_vars
\* An interval with two uses split after the first of them: the sibling
\* starts after a use that FirstRegisterUseAfter still finds on it.
C22_Witness ==
    /\ Len(intervals) = 2
    /\ intervals[1].next_sibling_ = 2
    /\ Len(UseChain(2)) = 2
    /\ LI_FirstRegisterUseAfter(2, 0) # kNoLifetime
    /\ LI_FirstRegisterUseAfter(2, 0) < GetStart(2)
    /\ LI_FirstRegisterUseAfter(2, GetStart(2)) > GetStart(2)

HasRange(i) == intervals[i].first_range_ # nullptr
LastOfChain(i) == RangeChain(i)[Len(RangeChain(i))]

\* C23: in every state the pass (AddUse, AddRange, AddLoopRange, SetFrom)
\* and the splits reach, on every interval that has a range, original or
\* sibling, last_range_ is the last range of the chain from first_range_,
\* and IsDeadAt(p) is true exactly when no position q >= p is covered.
C23_LastRangeEndsChain ==
    \A i \in DOMAIN intervals :
        HasRange(i)
            => /\ intervals[i].last_range_ = LastOfChain(i)
               /\ \A p \in Positions :
                      IsDeadAt(i, p) <=> \A q \in p..MaxPos : ~Covers(i, q)
\* Three intervals after two splits, one of them with two ranges and one
\* that dies at the last position but one.
C23_Witness ==
    /\ Len(intervals) = 3
    /\ \A i \in DOMAIN intervals : HasRange(i)
    /\ \E i \in DOMAIN intervals : Len(RangeChain(i)) = 2
    /\ \E i \in DOMAIN intervals : IsDeadAt(i, MaxPos - 1) /\ ~IsDeadAt(i, MaxPos - 2)

\* The ranges of interval i on the arenas rs, ivs, as [start, end) pairs in
\* the order of the chain.
SpansIn(rs, ivs, i) ==
    LET c == Chain(rs, ivs[i].first_range_)
    IN  [k \in DOMAIN c |-> <<rs[c[k]].start_, rs[c[k]].end_>>]

\* C24: AddUse of an instruction at p in a block [bs, be) leaves every
\* position of [bs, p) covered and prepends one use at p to the use chain;
\* it prepends the range [bs, p) when the interval has no range or its
\* first range starts neither at bs nor at be, leaves the ranges as they
\* are when the first range starts at bs, and moves the start of the first
\* range to bs when it starts at be.
C24_AddUse ==
    [][ret'.op = "AddUse"
          => LET i == ret'.self
                 p == ret'.arg
                 bs == GetLifetimeStart(pass[i].blk)
                 be == GetLifetimeEnd(pass[i].blk)
                 before == SpansIn(ranges, intervals, i)
                 after == SpansIn(ranges', intervals', i)
             IN  /\ \A q \in bs..(p - 1) : CoversIn(ranges', intervals', i, q)
                 /\ uses' = Append(uses, uses'[Len(uses')])
                 /\ intervals'[i].first_use_ = Len(uses')
                 /\ uses'[Len(uses')].position_ = p
                 /\ uses'[Len(uses')].next_ = intervals[i].first_use_
                 /\ IF before = <<>> \/ before[1][1] \notin {bs, be}
                    THEN after = <<<<bs, p>>>> \o before
                    ELSE IF before[1][1] = bs
                    THEN after = before /\ ranges' = ranges
                    ELSE after = [before EXCEPT ![1] = <<bs, before[1][2]>>]]_vars
\* A second use, two blocks before the first: the range of its block is
\* prepended across a lifetime hole.
C24_Witness ==
    /\ ret.op = "AddUse"
    /\ Len(UseChain(1)) = 2
    /\ Len(RangeChain(1)) = 2
    /\ GetStart(1) = GetLifetimeStart(pass[1].blk)
    /\ ranges[intervals[1].first_range_].end_ = ret.arg
    /\ uses[intervals[1].first_use_].position_ = ret.arg

\* C25: AddLoopRange(start, end) on an interval with a range leaves every
\* position of [start, end) covered and the first range starting at start:
\* the ranges that end before end are dropped, and then the interval is the
\* single range [start, end) if none is left, and otherwise the ranges left
\* with the start of the first of them moved to start.
C25_AddLoopRange ==
    [][ret'.op = "AddLoopRange"
          => LET i == ret'.self
                 start == GetLifetimeStart(pass[i].blk)
                 end == ret'.arg
                 before == SpansIn(ranges, intervals, i)
                 after == SpansIn(ranges', intervals', i)
                 ends_after(span) == span[2] >= end
                 left == SelectSeq(before, ends_after)
             IN  /\ before # <<>>
                 /\ \A q \in start..(end - 1) : CoversIn(ranges', intervals', i, q)
                 /\ after # <<>> /\ after[1][1] = start
                 /\ IF left = <<>>
                    THEN after = <<<<start, end>>>>
                    ELSE after = [left EXCEPT ![1] = <<start, left[1][2]>>]]_vars
\* A loop over two blocks whose second has a use: the range of that use is
\* dropped, and the range of a later use, past the loop, is extended back
\* to the start of the loop.
C25_Witness ==
    /\ ret.op = "AddLoopRange"
    /\ Len(ranges) = 2
    /\ Len(RangeChain(1)) = 1
    /\ GetStart(1) = GetLifetimeStart(pass[1].blk)
    /\ ranges[intervals[1].first_range_].end_ > ret.arg
    /\ \E r \in DOMAIN ranges : ranges[r].end_ < ret.arg
    /\ ret.arg - GetStart(1) = 2 * BlockLen

ThreeRegisterForms == {"ADD_INT", "SUB_INT"}
TwoAddressForms == {"ADD_INT_2ADDR", "SUB_INT_2ADDR"}
LiteralForms == {"ADD_INT_LIT16", "ADD_INT_LIT8", "RSUB_INT", "RSUB_INT_LIT8"}
ReversedForms == {"RSUB_INT", "RSUB_INT_LIT8"}
\* The instruction the next turn of the loop of BuildGraph translates.
NextInstruction == input.code_item.insns_[builder.code_ptr]
\* What the turn appends to the block that is current before it, as
\* pointers to the instructions.
AppendedTo(block) ==
    SubSeq(builder'.blocks[block].instructions,
           Len(builder.blocks[block].instructions) + 1,
           Len(builder'.blocks[block].instructions))

\* C26: a binary operation appends to the current block the loads of the
\* locals of its register operands (vB and vC, vA and vB for a 2ADDR form,
\* vB alone for a literal form), then the Add or Sub, then the store of the
\* operation into the local of vA, and nothing else; the operation takes
\* the loads in this order, a literal form takes the load and the constant
\* of its literal, and RSUB_INT and RSUB_INT_LIT8 take the constant first
\* and the load second.
C26_BinopLowering ==
    [][/\ AtInstruction
       /\ builder.current_block_ # nullptr
       /\ NextInstruction.opcode
              \in ThreeRegisterForms \cup TwoAddressForms \cup LiteralForms
       => LET instruction == NextInstruction
              opcode == instruction.opcode
              at == AppendedTo(builder.current_block_)
              node == [k \in DOMAIN at |-> builder'.instructions[at[k]]]
              registers == CASE opcode \in ThreeRegisterForms
                                    -> <<instruction.vB, instruction.vC>>
                             [] opcode \in TwoAddressForms
                                    -> <<instruction.vA, instruction.vB>>
                             [] OTHER -> <<instruction.vB>>
              loads == Len(registers)
              operation == node[loads + 1]
          IN  /\ Len(at) = loads + 2
              /\ \A k \in 1..loads :
                     /\ node[k].kind = "HLoadLocal"
                     /\ node[k].inputs = <<GetLocalAt(builder, registers[k])>>
              /\ operation.kind
                     = (IF opcode \in {"ADD_INT", "ADD_INT_2ADDR", "ADD_INT_LIT16",
                                       "ADD_INT_LIT8"}
                        THEN "HAdd" ELSE "HSub")
              /\ Len(operation.inputs) = 2
              /\ IF opcode \notin LiteralForms
                 THEN operation.inputs = <<at[1], at[2]>>
                 ELSE LET load == IF opcode \in ReversedForms THEN 2 ELSE 1
                          literal == builder'.instructions[operation.inputs[3 - load]]
                      IN  /\ operation.inputs[load] = at[1]
                          /\ literal.kind = "HIntConstant"
                          /\ literal.value = instruction.vC
              /\ node[loads + 2].kind = "HStoreLocal"
              /\ node[loads + 2].inputs
                     = <<GetLocalAt(builder, instruction.vA), at[loads + 1]>>]_vars
\* After rsub-int v2 = 7 - v1: the block ends with the store of a Sub whose
\* first input is the constant 7 and whose second is a load.
C26_Witness ==
    /\ builder.pc = "loop"
    /\ builder.code_ptr = 4
    /\ input.code_item.insns_[3].opcode = "RSUB_INT"
    /\ input.code_item.insns_[3].vC = 7
    /\ LET last == builder.instructions[GetLastInstruction(builder, builder.current_block_)]
           sub == builder.instructions[last.inputs[2]]
       IN  /\ last.kind = "HStoreLocal"
           /\ sub.kind = "HSub"
           /\ builder.instructions[sub.inputs[1]].kind = "HIntConstant"
           /\ builder.instructions[sub.inputs[1]].value = 7
           /\ builder.instructions[sub.inputs[2]].kind = "HLoadLocal"

\* The block in which the next turn of the loop translates its instruction:
\* the block that starts at the instruction, or else the current block.
TranslatingBlock ==
    IF FindBlockStartingAt(builder, builder.dex_offset) # nullptr
    THEN FindBlockStartingAt(builder, builder.dex_offset)
    ELSE builder.current_block_

\* C27: IF_NE appends to the translating block the loads of the locals of
\* vA and vB, an Equal of the two loads, a Not of the Equal and an If of the
\* Not; IF_EQ appends the loads, the Equal and an If of the Equal.  The
\* block then has exactly two successors, the block of the branch target
\* first and the block of the next instruction second, and no block is
\* current.
C27_IfLowering ==
    [][/\ AtInstruction
       /\ TranslatingBlock # nullptr
       /\ NextInstruction.opcode \in {"IF_EQ", "IF_NE"}
       => LET instruction == NextInstruction
              block == TranslatingBlock
              at == AppendedTo(block)
              node == [k \in DOMAIN at |-> builder'.instructions[at[k]]]
              is_not == instruction.opcode = "IF_NE"
              count == IF is_not THEN 5 ELSE 4
          IN  /\ Len(at) = count
              /\ node[1].kind = "HLoadLocal"
              /\ node[1].inputs = <<GetLocalAt(builder, instruction.vA)>>
              /\ node[2].kind = "HLoadLocal"
              /\ node[2].inputs = <<GetLocalAt(builder, instruction.vB)>>
              /\ node[3].kind = "HEqual"
              /\ node[3].inputs = <<at[1], at[2]>>
              /\ is_not => node[4].kind = "HNot" /\ node[4].inputs = <<at[3]>>
              /\ node[count].kind = "HIf"
              /\ node[count].inputs = <<at[count - 1]>>
              /\ builder'.blocks[block].successors
                     = <<FindBlockStartingAt(builder,
                                             instruction.target_offset + builder.dex_offset),
                         FindBlockStartingAt(builder,
                                             builder.dex_offset
                                                 + SizeInCodeUnits(instruction))>>
              /\ \A k \in 1..2 : builder'.blocks[block].successors[k] # nullptr
              /\ builder'.current_block_ = nullptr]_vars
\* After an if-ne that is the second instruction of its block and branches
\* back to the start of that block.
C27_Witness ==
    /\ builder.pc = "loop"
    /\ builder.code_ptr = 3
    /\ input.code_item.insns_[1].opcode = "CONST_4"
    /\ input.code_item.insns_[2].opcode = "IF_NE"
    /\ input.code_item.insns_[2].target_offset = -1
    /\ builder.current_block_ = nullptr
    /\ LET block == FindBlockStartingAt(builder, 0)
       IN  /\ KindsOf(builder, block)
                  = <<"HStoreLocal", "HLoadLocal", "HLoadLocal", "HEqual", "HNot", "HIf">>
           /\ builder.blocks[block].successors
                  = <<block, FindBlockStartingAt(builder, 3)>>
           /\ FindBlockStartingAt(builder, 3) \notin {nullptr, block}

(***************************************************************************)
(* Properties of OpRegRegImm.                                              *)
(***************************************************************************)
\* OpRegRegImm has returned from a left shift by an amount below the width
\* of its destination.
ShiftedLeft ==
    /\ ret.op = "OpRegRegImm"
    /\ input.kind = "kOpLsl"
    /\ input.value \in 0..((IF input.r_dest.is_64bit THEN 64 ELSE 32) - 1)

\* C28: OpRegRegImm with kOpLsl emits the ubfm that is the alias of
\* lsl rd, rs, #imm: on a 32-bit destination its immediates are
\* (-imm MOD 32) and (31 - imm) for every 0 <= imm < 32, and on a 64-bit
\* destination the wide ubfm has (-imm MOD 64) and (63 - imm).
C28_LslAlias ==
    ShiftedLeft
        => LET is_wide == input.r_dest.is_64bit
               width == IF is_wide THEN 64 ELSE 32
               imm == input.value
           IN  /\ Len(insns) = 1
               /\ ret.val = 1
               /\ insns[1].opcode = Widen(A64Opcode("kA64Ubfm4rrdd"), is_wide)
               /\ insns[1].operands[1] = input.r_dest.reg
               /\ insns[1].operands[2] = input.r_src1.reg
               /\ insns[1].operands[3] = (-imm) % width
               /\ insns[1].operands[4] = width - 1 - imm

(***************************************************************************)
(* Properties of EncodeLogicalImmediate on 32-bit values.                  *)
(***************************************************************************)
\* C29: with is_wide false, EncodeLogicalImmediate returns what it returns
\* for the low 32 bits of its argument alone, and so -1 when these are all
\* zero or all one, whatever the upper 32 bits are.
C29_LowWordOnly ==
    (ret.op = "EncodeLogicalImmediate" /\ ~input.is_wide)
        => /\ ret.val = EncodeLogicalImmediate(FALSE, Truncate(32, input.value),
                                               [clz |-> 0, ctz |-> 0])
           /\ Truncate(32, input.value) \in {{}, 0..31} => ret.val = -1

\* C30: the record of the operation OpRegRegImm emits, which it returns, has
\* the 64-bit variant of its opcode for a 64-bit destination and the 32-bit
\* variant for a 32-bit destination, on the scratch-register path (add and
\* sub of large immediates, adc, sbc, mul, and, or and xor of immediates
\* that have no encoding) as on the paths with a compact immediate.
C30_WidthOfDestination ==
    (ret.op = "OpRegRegImm" /\ ret.val # FatalResult)
        => /\ ret.val \in DOMAIN insns
           /\ insns[ret.val].opcode.wide = input.r_dest.is_64bit

=============================================================================
